---- MODULE Spec2Model ----
(***************************************************************************)
(* Shopping-cart subsystem of pyshop-api: cart identity resolution,        *)
(* cart store operations and the merge / conflict-resolution engine.       *)
(*                                                                         *)
(* Money is counted in tenths of a cent (1.00 is 1000), so that the      *)
(* one-cent threshold 0.01 of the price comparisons is the integer 10 and  *)
(* prices on both sides of the threshold exist.  The code keeps prices as   *)
(* doubles: where an outcome depends on the binary value (a difference of  *)
(* exactly one cent, a sum ending on half a cent) the model follows the    *)
(* double arithmetic.  Time is counted in days, and in hours where         *)
(* cleanup_abandoned_carts is specified.                                   *)
(* datetime.utcnow() reads the wall clock `now`; the wall clock is not      *)
(* monotonic, so a row may carry a timestamp later than a later reading.   *)
(***************************************************************************)
EXTENDS Integers, Sequences, FiniteSets, TLC

\* ------------------------------------------------------------------ bounds
MaxCarts == 2
MaxItems == 3
MaxQty == 66
MaxCalls == 1

\* ------------------------------------------------------- program constants
MAX_QUANTITY == 99
PRICE_EPSILON == 10
EXPIRY_DAYS == 7

\* ------------------------------------------------------------ input domains
NoId == 0
NoTime == -1
Users == {1}
Sessions == {1}
ProductIds == {1, 2}
Procs == {1, 2}
QtyChoices == {33}
PriceChoices == {1000, 1010, 1011}
Times == {0, 1}

ACTIVE == "active"
ABANDONED == "abandoned"
CONVERTED == "converted"
EXPIRED == "expired"
CartStatus == {ACTIVE, ABANDONED, CONVERTED, EXPIRED}

VARIABLES carts, items, products, nextCartId, nextItemId, now, calls, last

vars == <<carts, items, products, nextCartId, nextItemId, now, calls, last>>

\* ------------------------------------------------------------------ helpers
Abs(x) == IF x < 0 THEN -x ELSE x

Min(S) == CHOOSE m \in S : \A x \in S : m <= x

RECURSIVE SetToSeq(_)
SetToSeq(S) == IF S = {} THEN <<>> ELSE <<Min(S)>> \o SetToSeq(S \ {Min(S)})

\* The database as one value, so that service methods compose.
DB == [carts |-> carts, items |-> items, nextCartId |-> nextCartId,
       nextItemId |-> nextItemId]

\* Cart.items: the rows of cart_item whose cart_id is c, in row order.
ItemsOf(its, c) == {i \in DOMAIN its : its[i].cart_id = c}

CartItems(its, c) == SetToSeq(ItemsOf(its, c))

\* ---------------------------------------------------------------- CartService
\* The WHERE clause without the test on the status.
ActiveCartsOf_AnyStatus(cs, uid, sid) ==
    {c \in DOMAIN cs :
        \/ (uid # NoId /\ cs[c].user_id = uid)
        \/ (sid # NoId /\ cs[c].session_id = sid)}

\* The WHERE clause of get_or_create_cart: ACTIVE carts of the identity.
ActiveCartsOf(cs, uid, sid) ==
    {c \in DOMAIN cs :
        /\ cs[c].status = ACTIVE
        /\ \/ (uid # NoId /\ cs[c].user_id = uid)
           \/ (sid # NoId /\ cs[c].session_id = sid)}

\* The Cart(...) row built by get_or_create_cart.
NewCart(uid, sid, t) ==
    [user_id |-> uid, session_id |-> sid, status |-> ACTIVE,
     updated_at |-> t,
     expires_at |-> IF sid # NoId THEN t + EXPIRY_DAYS ELSE NoTime]

\* get_or_create_cart that inserts a cart without looking for one.
GetOrCreateCart_AlwaysCreate(db, uid, sid, t) ==
    IF uid = NoId /\ sid = NoId
    THEN [db |-> db, ret |-> NoId, err |-> "ValueError", created |-> FALSE]
    ELSE LET c == db.nextCartId IN
         [db |-> [db EXCEPT !.carts = db.carts @@ (c :> NewCart(uid, sid, t)),
                            !.nextCartId = c + 1],
          ret |-> c, err |-> "", created |-> TRUE]

\* get_or_create_cart run as one transaction at time t.
\* err: "ValueError" (no identity), "MultipleResultsFound" (scalar_one_or_none).
GetOrCreateCart(db, uid, sid, t) ==
    LET found == ActiveCartsOf(db.carts, uid, sid) IN
    IF uid = NoId /\ sid = NoId
    THEN [db |-> db, ret |-> NoId, err |-> "ValueError", created |-> FALSE]
    ELSE IF Cardinality(found) > 1
    THEN [db |-> db, ret |-> NoId, err |-> "MultipleResultsFound",
          created |-> FALSE]
    ELSE IF found # {}
    THEN LET c == CHOOSE x \in found : TRUE IN
         [db |-> [db EXCEPT !.carts[c].updated_at = t],
          ret |-> c, err |-> "", created |-> FALSE]
    ELSE LET c == db.nextCartId IN
         [db |-> [db EXCEPT !.carts = db.carts @@ (c :> NewCart(uid, sid, t)),
                            !.nextCartId = c + 1],
          ret |-> c, err |-> "", created |-> TRUE]

\* add_item that inserts a row without looking for one.
AddItem_AlwaysInsert(db, prods, c, p, q, t) ==
    IF p \notin DOMAIN prods
    THEN [db |-> db, ret |-> NoId, err |-> "ValueError"]
    ELSE LET i == db.nextItemId IN
         [db |-> [db EXCEPT !.items = db.items @@
                                (i :> [cart_id |-> c, product_id |-> p,
                                       quantity |-> q,
                                       unit_price |-> prods[p],
                                       updated_at |-> t]),
                            !.nextItemId = i + 1],
          ret |-> i, err |-> ""]

\* add_item run as one transaction at time t; prods is the product table.
AddItem(db, prods, c, p, q, t) ==
    LET existing == {i \in DOMAIN db.items :
                        db.items[i].cart_id = c /\ db.items[i].product_id = p}
        touched == IF c \in DOMAIN db.carts
                   THEN [db.carts EXCEPT ![c].updated_at = t]
                   ELSE db.carts
    IN
    IF p \notin DOMAIN prods
    THEN [db |-> db, ret |-> NoId, err |-> "ValueError"]
    ELSE IF existing # {}
    THEN LET i == CHOOSE x \in existing : TRUE IN
         [db |-> [db EXCEPT !.items[i].quantity = @ + q,
                            !.items[i].updated_at = t,
                            !.carts = touched],
          ret |-> i, err |-> ""]
    ELSE LET i == db.nextItemId IN
         [db |-> [db EXCEPT !.items = db.items @@
                                (i :> [cart_id |-> c, product_id |-> p,
                                       quantity |-> q,
                                       unit_price |-> prods[p],
                                       updated_at |-> t]),
                            !.nextItemId = i + 1,
                            !.carts = touched],
          ret |-> i, err |-> ""]

\* get_cart_by_id: the cart row, or None.
GetCartById(db, c) == IF c \in DOMAIN db.carts THEN c ELSE NoId

\* merge_carts, line 267: the quantity of a product present in both carts.
MergeQuantity(targetQty, sourceQty) == targetQty + sourceQty

\* A transfer that stamps the item but leaves it in the source cart.
TransferItem_KeepsCart(item, tgt, t) == [item EXCEPT !.updated_at = t]

\* merge_carts, lines 271-272: move a source item to the target cart.
TransferItem(item, tgt, t) == [item EXCEPT !.cart_id = tgt, !.updated_at = t]

\* The loop of merge_carts over source_cart.items.  targetItems is the list
\* target_cart.items as loaded before the loop; its holds the row values, so
\* an assignment made in an earlier iteration is seen by a later one.
RECURSIVE MergeLoop(_, _, _, _, _)
MergeLoop(its, rest, targetItems, tgt, t) ==
    IF rest = <<>> THEN its
    ELSE LET si == Head(rest)
             hits == {k \in 1..Len(targetItems) :
                        its[targetItems[k]].product_id = its[si].product_id}
         IN IF hits # {}
            THEN LET ti == targetItems[Min(hits)] IN
                 MergeLoop([its EXCEPT
                              ![ti].quantity =
                                  MergeQuantity(its[ti].quantity,
                                                its[si].quantity),
                              ![ti].updated_at = t],
                           Tail(rest), targetItems, tgt, t)
            ELSE MergeLoop([its EXCEPT ![si] = TransferItem(its[si], tgt, t)],
                           Tail(rest), targetItems, tgt, t)

\* merge_carts looking for the target cart only after the transfer.
MergeCarts_TransferFirst(db, src, tgt, t) ==
    IF GetCartById(db, src) = NoId
    THEN [db |-> db, ret |-> NoId, err |-> "ValueError"]
    ELSE LET merged == MergeLoop(db.items, CartItems(db.items, src),
                                 CartItems(db.items, tgt), tgt, t)
             cs1 == [db.carts EXCEPT ![src].status = ABANDONED,
                                     ![src].updated_at = t]
         IN IF GetCartById(db, tgt) = NoId
            THEN [db |-> [db EXCEPT !.items = merged, !.carts = cs1],
                  ret |-> NoId, err |-> "ValueError"]
            ELSE [db |-> [db EXCEPT !.items = merged,
                                    !.carts = [cs1 EXCEPT
                                                 ![tgt].updated_at = t]],
                  ret |-> tgt, err |-> ""]

\* merge_carts run as one transaction at time t.
MergeCarts(db, src, tgt, t) ==
    IF GetCartById(db, src) = NoId \/ GetCartById(db, tgt) = NoId
    THEN [db |-> db, ret |-> NoId, err |-> "ValueError"]
    ELSE LET merged == MergeLoop(db.items, CartItems(db.items, src),
                                 CartItems(db.items, tgt), tgt, t)
             cs1 == [db.carts EXCEPT ![src].status = ABANDONED,
                                     ![src].updated_at = t]
             cs2 == [cs1 EXCEPT ![tgt].updated_at = t]
         IN [db |-> [db EXCEPT !.items = merged, !.carts = cs2],
             ret |-> tgt, err |-> ""]

\* The cart row of c stamped with t, when there is one (the "Update cart
\* timestamp" block of the item operations).
TouchCart(cs, c, t) ==
    IF c \in DOMAIN cs THEN [cs EXCEPT ![c].updated_at = t] ELSE cs

\* session.delete of the item rows in gone.
DeleteItems(its, gone) == [i \in DOMAIN its \ gone |-> its[i]]

\* update_item_quantity storing the requested quantity whatever its sign.
UpdateItemQuantity_KeepsAny(db, c, i, q, t) ==
    IF ~(i \in DOMAIN db.items /\ db.items[i].cart_id = c)
    THEN [db |-> db, ret |-> NoId]
    ELSE [db |-> [db EXCEPT !.items[i].quantity = q,
                            !.items[i].updated_at = t,
                            !.carts = TouchCart(db.carts, c, t)],
          ret |-> i]

\* update_item_quantity run as one transaction at time t.  ret is the item
\* returned, NoId for None.
UpdateItemQuantity(db, c, i, q, t) ==
    IF ~(i \in DOMAIN db.items /\ db.items[i].cart_id = c)
    THEN [db |-> db, ret |-> NoId]
    ELSE IF q <= 0
    THEN [db |-> [db EXCEPT !.items = DeleteItems(db.items, {i}),
                            !.carts = TouchCart(db.carts, c, t)],
          ret |-> NoId]
    ELSE [db |-> [db EXCEPT !.items[i].quantity = q,
                            !.items[i].updated_at = t,
                            !.carts = TouchCart(db.carts, c, t)],
          ret |-> i]

\* remove_item that looks the item up by its id alone.
RemoveItem_AnyCart(db, c, i, t) ==
    IF i \notin DOMAIN db.items
    THEN [db |-> db, ret |-> FALSE]
    ELSE [db |-> [db EXCEPT !.items = DeleteItems(db.items, {i}),
                            !.carts = TouchCart(db.carts, c, t)],
          ret |-> TRUE]

\* remove_item run as one transaction at time t.  ret is the bool returned.
RemoveItem(db, c, i, t) ==
    IF ~(i \in DOMAIN db.items /\ db.items[i].cart_id = c)
    THEN [db |-> db, ret |-> FALSE]
    ELSE [db |-> [db EXCEPT !.items = DeleteItems(db.items, {i}),
                            !.carts = TouchCart(db.carts, c, t)],
          ret |-> TRUE]

\* clear_cart run as one transaction at time t.  Without a cart row there is
\* no commit, and no item row refers to a cart that does not exist.
ClearCart(db, c, t) ==
    IF c \notin DOMAIN db.carts
    THEN [db |-> db, ret |-> FALSE]
    ELSE [db |-> [db EXCEPT !.items = DeleteItems(db.items,
                                                  ItemsOf(db.items, c)),
                            !.carts = TouchCart(db.carts, c, t)],
          ret |-> TRUE]

\* The WHERE clause without the test that expires_at is set.
ExpiredCarts_UnsetExpires(cs, t) ==
    {c \in DOMAIN cs : cs[c].expires_at < t /\ cs[c].status = ACTIVE}

\* The WHERE clause of cleanup_expired_carts at time t.
ExpiredCarts(cs, t) ==
    {c \in DOMAIN cs : /\ cs[c].expires_at # NoTime
                        /\ cs[c].expires_at < t
                        /\ cs[c].status = ACTIVE}

\* cleanup_expired_carts that deletes the carts it finds.
CleanupExpiredCarts_Deletes(db, t) ==
    LET gone == ExpiredCarts(db.carts, t) IN
    [db |-> [db EXCEPT !.carts =
                [c \in DOMAIN db.carts \ gone |-> db.carts[c]]],
     ret |-> Cardinality(gone)]

\* cleanup_expired_carts run as one transaction at time t.  ret is the count.
CleanupExpiredCarts(db, t) ==
    LET gone == ExpiredCarts(db.carts, t) IN
    [db |-> [db EXCEPT !.carts =
                [c \in DOMAIN db.carts |->
                    IF c \in gone
                    THEN [db.carts[c] EXCEPT !.status = EXPIRED,
                                             !.updated_at = t]
                    ELSE db.carts[c]]],
     ret |-> Cardinality(gone)]

\* round(x, 2) of an amount x kept in tenths of a cent: the nearest whole
\* cent.  Half a cent has no exact float, so which neighbour round() gives
\* depends on the float next to x: up says it lies above the half.
Round2(x, up) ==
    LET cents == (x \div 10) * 10
        rest == x % 10
    IN IF rest < 5 THEN cents
       ELSE IF rest > 5 \/ up THEN cents + 10
       ELSE cents

\* sum(item.quantity * item.unit_price for item in cart.items) over the items
\* of cart c with ids k..hi.
RECURSIVE Subtotal(_, _, _, _)
Subtotal(its, c, k, hi) ==
    IF k > hi THEN 0
    ELSE IF k = hi
    THEN IF k \in DOMAIN its /\ its[k].cart_id = c
         THEN its[k].quantity * its[k].unit_price
         ELSE 0
    ELSE Subtotal(its, c, k, (k + hi) \div 2)
         + Subtotal(its, c, (k + hi) \div 2 + 1, hi)

\* sum(item.quantity for item in cart.items), likewise.
RECURSIVE SumQuantity(_, _, _, _)
SumQuantity(its, c, k, hi) ==
    IF k > hi THEN 0
    ELSE IF k = hi
    THEN IF k \in DOMAIN its /\ its[k].cart_id = c
         THEN its[k].quantity
         ELSE 0
    ELSE SumQuantity(its, c, k, (k + hi) \div 2)
         + SumQuantity(its, c, (k + hi) \div 2 + 1, hi)

\* calculate_cart_summary that returns the subtotal as summed.
CalculateCartSummary_Unrounded(db, c, up) ==
    [total_items |-> Cardinality(ItemsOf(db.items, c)),
     total_quantity |-> SumQuantity(db.items, c, 1, db.nextItemId - 1),
     subtotal |-> Subtotal(db.items, c, 1, db.nextItemId - 1)]

\* calculate_cart_summary(cart) for the cart with id c.
CalculateCartSummary(db, c, up) ==
    [total_items |-> Cardinality(ItemsOf(db.items, c)),
     total_quantity |-> SumQuantity(db.items, c, 1, db.nextItemId - 1),
     subtotal |-> Round2(Subtotal(db.items, c, 1, db.nextItemId - 1), up)]

\* ------------------------------------------------------ CartResolutionService
Msg(kind, p) == [kind |-> kind, product |-> p]

\* The combined quantity without the cap.
ResolvedQuantity_NoCap(userQty, sessionQty) == userQty + sessionQty

\* resolve_cart_conflicts, lines 160-164: the combined quantity, capped.
ResolvedQuantity(userQty, sessionQty) ==
    IF userQty + sessionQty > MAX_QUANTITY
    THEN MAX_QUANTITY
    ELSE userQty + sessionQty

\* resolve_cart_conflicts, lines 163-174: the message about the quantity.
QuantityMessage(p, userQty, sessionQty) ==
    IF userQty + sessionQty > MAX_QUANTITY
    THEN Msg("capped", p)
    ELSE Msg("merged", p)


\* Pairs of prices one cent apart whose difference, computed on the doubles
\* of the Float columns, is above the double 0.01: abs(1.00 - 1.01) is
\* 0.010000000000000009.  The difference of 1.010 and 1.011 is 0.001 and that
\* of 1.000 and 1.011 is 0.011 on either side of any rounding.
FloatAboveCent == {{1000, 1010}}

\* abs(a - b) > 0.01 (lines 55 and 181) on the doubles of two prices.
PriceDiffers(a, b) ==
    \/ Abs(a - b) > PRICE_EPSILON
    \/ Abs(a - b) = PRICE_EPSILON /\ {a, b} \in FloatAboveCent

\* resolve_cart_conflicts, lines 180-181, evaluated on the two items as they
\* are when line 180 runs.
UsesSessionPrice(sessionItem, userItem) ==
    /\ sessionItem.updated_at > userItem.updated_at
    /\ PriceDiffers(userItem.unit_price, sessionItem.unit_price)

\* resolve_cart_conflicts, lines 157-186: one conflicting product.  The user
\* item is stamped with the current time (line 177) before the timestamps are
\* compared (line 180).
ResolveConflict(its, msgs, si, ui, t) ==
    LET p == its[si].product_id
        its1 == [its EXCEPT
                   ![ui].quantity = ResolvedQuantity(its[ui].quantity,
                                                     its[si].quantity),
                   ![ui].updated_at = t]
        msgs1 == Append(msgs, QuantityMessage(p, its[ui].quantity,
                                              its[si].quantity))
    IN IF UsesSessionPrice(its1[si], its1[ui])
       THEN [items |-> [its1 EXCEPT ![ui].unit_price = its1[si].unit_price],
             messages |-> Append(msgs1, Msg("price", p))]
       ELSE [items |-> its1, messages |-> msgs1]

\* resolve_cart_conflicts, lines 189-190: hand a session item to the user cart.
AdoptItem(item, u, t) == [item EXCEPT !.cart_id = u, !.updated_at = t]

\* The loop putting each new message in front of the earlier ones.
RECURSIVE ResolveLoop_Prepend(_, _, _, _, _, _)
ResolveLoop_Prepend(its, msgs, rest, userItems, u, t) ==
    IF rest = <<>> THEN [items |-> its, messages |-> msgs]
    ELSE LET si == Head(rest)
             hits == {k \in 1..Len(userItems) :
                        its[userItems[k]].product_id = its[si].product_id}
         IN IF hits # {}
            THEN LET r == ResolveConflict(its, <<>>, si,
                                          userItems[Min(hits)], t)
                 IN ResolveLoop_Prepend(r.items, r.messages \o msgs,
                                        Tail(rest), userItems, u, t)
            ELSE ResolveLoop_Prepend(
                     [its EXCEPT ![si] = AdoptItem(its[si], u, t)],
                     <<Msg("added", its[si].product_id)>> \o msgs,
                     Tail(rest), userItems, u, t)

\* resolve_cart_conflicts, lines 149-193: the loop over session_cart.items,
\* matching against user_cart.items as loaded before the loop.
RECURSIVE ResolveLoop(_, _, _, _, _, _)
ResolveLoop(its, msgs, rest, userItems, u, t) ==
    IF rest = <<>> THEN [items |-> its, messages |-> msgs]
    ELSE LET si == Head(rest)
             hits == {k \in 1..Len(userItems) :
                        its[userItems[k]].product_id = its[si].product_id}
         IN IF hits # {}
            THEN LET r == ResolveConflict(its, msgs, si,
                                          userItems[Min(hits)], t)
                 IN ResolveLoop(r.items, r.messages, Tail(rest),
                                userItems, u, t)
            ELSE ResolveLoop([its EXCEPT ![si] = AdoptItem(its[si], u, t)],
                             Append(msgs, Msg("added", its[si].product_id)),
                             Tail(rest), userItems, u, t)

\* A bulk adoption that hands over only the first session item.
AdoptAll_FirstOnly(db, u, s, t) ==
    [db |-> [db EXCEPT !.items =
                [i \in DOMAIN db.items |->
                    IF i = Min(ItemsOf(db.items, s))
                    THEN [db.items[i] EXCEPT !.cart_id = u, !.updated_at = t]
                    ELSE db.items[i]]],
     messages |-> <<Msg("adopt_all", NoId)>>, ret |-> u]

\* resolve_cart_conflicts, lines 136-146: the user cart is empty.
AdoptAll(db, u, s, t) ==
    [db |-> [db EXCEPT !.items =
                [i \in DOMAIN db.items |->
                    IF db.items[i].cart_id = s
                    THEN [db.items[i] EXCEPT !.cart_id = u, !.updated_at = t]
                    ELSE db.items[i]]],
     messages |-> <<Msg("adopt_all", NoId)>>, ret |-> u]

\* resolve_cart_conflicts without the early return for an empty session cart.
ResolveCartConflicts_NoEmptyCheck(db, u, s, t) ==
    LET sessionItems == CartItems(db.items, s)
        userItems == CartItems(db.items, u)
    IN
    IF userItems = <<>>
    THEN AdoptAll(db, u, s, t)
    ELSE LET r == ResolveLoop(db.items, <<>>, sessionItems, userItems, u, t)
             cs1 == [db.carts EXCEPT ![s].status = ABANDONED,
                                     ![s].updated_at = t]
             cs2 == [cs1 EXCEPT ![u].updated_at = t]
         IN [db |-> [db EXCEPT !.items = r.items, !.carts = cs2],
             messages |-> r.messages, ret |-> u]

\* resolve_cart_conflicts(user_cart = u, session_cart = s) at time t.
ResolveCartConflicts(db, u, s, t) ==
    LET sessionItems == CartItems(db.items, s)
        userItems == CartItems(db.items, u)
    IN
    IF sessionItems = <<>>
    THEN [db |-> db, messages |-> <<Msg("session_empty", NoId)>>, ret |-> u]
    ELSE IF userItems = <<>>
    THEN AdoptAll(db, u, s, t)
    ELSE LET r == ResolveLoop(db.items, <<>>, sessionItems, userItems, u, t)
             cs1 == [db.carts EXCEPT ![s].status = ABANDONED,
                                     ![s].updated_at = t]
             cs2 == [cs1 EXCEPT ![u].updated_at = t]
         IN [db |-> [db EXCEPT !.items = r.items, !.carts = cs2],
             messages |-> r.messages, ret |-> u]

\* The most item rows a cart may hold without an error (line 80) and the
\* total quantity above which validation warns (line 84).
MAX_CART_ITEMS == 100
MAX_TOTAL_QUANTITY == 500

\* The product table holds a row for the product of item.
ProductExists(item, prods) == item.product_id \in DOMAIN prods

\* resolve_and_validate_cart, lines 54-63: the item after the price check,
\* for an item whose product exists.
PricedItem(item, prods, t) ==
    IF PriceDiffers(item.unit_price, prods[item.product_id])
    THEN [item EXCEPT !.unit_price = prods[item.product_id],
                      !.updated_at = t]
    ELSE item

\* The loop body without the quantity cap.
ValidatedItem_NoClamp(item, prods, t) ==
    IF ~ProductExists(item, prods) THEN item
    ELSE PricedItem(item, prods, t)

\* resolve_and_validate_cart, lines 44-76: what the loop makes of one item;
\* an item whose product is gone is skipped by the continue of line 52.
ValidatedItem(item, prods, t) ==
    IF ~ProductExists(item, prods) THEN item
    ELSE LET priced == PricedItem(item, prods, t)
         IN IF priced.quantity >= 1 /\ priced.quantity > MAX_QUANTITY
            THEN [priced EXCEPT !.quantity = MAX_QUANTITY, !.updated_at = t]
            ELSE priced

\* The errors of one item without the quantity test of line 66.
ItemErrors_NoQuantityCheck(item, prods) ==
    IF ~ProductExists(item, prods)
    THEN <<Msg("unavailable", item.product_id)>>
    ELSE <<>>

\* Lines 50-52 and 66-69: the errors the loop appends for one item.
ItemErrors(item, prods) ==
    IF ~ProductExists(item, prods)
    THEN <<Msg("unavailable", item.product_id)>>
    ELSE IF item.quantity < 1
    THEN <<Msg("invalid_quantity", item.product_id)>>
    ELSE <<>>

\* Lines 55-59 and 70-73: the warnings the loop appends for one item.
ItemWarnings(item, prods) ==
    IF ~ProductExists(item, prods) THEN <<>>
    ELSE (IF PriceDiffers(item.unit_price, prods[item.product_id])
          THEN <<Msg("price_changed", item.product_id)>>
          ELSE <<>>)
         \o (IF item.quantity >= 1 /\ item.quantity > MAX_QUANTITY
             THEN <<Msg("exceeds_maximum", item.product_id)>>
             ELSE <<>>)

\* The loop of lines 44-76 over the items of cart c with ids k..hi, in row
\* order: the errors and the warnings it collects.
RECURSIVE ValidateItems(_, _, _, _, _)
ValidateItems(its, prods, c, k, hi) ==
    IF k > hi THEN [errors |-> <<>>, warnings |-> <<>>]
    ELSE IF k = hi
    THEN IF k \in DOMAIN its /\ its[k].cart_id = c
         THEN [errors |-> ItemErrors(its[k], prods),
               warnings |-> ItemWarnings(its[k], prods)]
         ELSE [errors |-> <<>>, warnings |-> <<>>]
    ELSE LET mid == (k + hi) \div 2
             head == ValidateItems(its, prods, c, k, mid)
             rest == ValidateItems(its, prods, c, mid + 1, hi)
         IN [errors |-> head.errors \o rest.errors,
             warnings |-> head.warnings \o rest.warnings]

\* Lines 78-89: the cart-level errors, on the items as the loop left them.
CartErrors(cart, n, t) ==
    (IF n > MAX_CART_ITEMS THEN <<Msg("too_many_items", NoId)>> ELSE <<>>)
    \o (IF cart.expires_at # NoTime /\ cart.expires_at < t
        THEN <<Msg("expired", NoId)>>
        ELSE <<>>)

\* Lines 83-85: the cart-level warning.
CartWarnings(total) ==
    IF total > MAX_TOTAL_QUANTITY THEN <<Msg("total_high", NoId)>> ELSE <<>>

\* resolve_and_validate_cart that deletes the items whose product is gone.
ResolveAndValidateCart_DeletesUnavailable(db, prods, c, t) ==
    LET gone == {i \in ItemsOf(db.items, c) :
                    ~ProductExists(db.items[i], prods)}
    IN [db |-> [db EXCEPT !.items = DeleteItems(db.items, gone)],
        ret |-> gone = {},
        errors |-> IF gone = {} THEN <<>>
                   ELSE <<Msg("unavailable", NoId)>>,
        warnings |-> <<>>]

\* resolve_and_validate_cart(c) at time t.  ret is is_valid.  The lists hold
\* the kind of each message, the cart-level errors after the per-item ones in
\* the order the code appends them.
ResolveAndValidateCart(db, prods, c, t) ==
    IF GetCartById(db, c) = NoId
    THEN [db |-> db, ret |-> FALSE,
          errors |-> <<Msg("not_found", NoId)>>, warnings |-> <<>>]
    ELSE LET mine == ItemsOf(db.items, c)
             hi == db.nextItemId - 1
             its1 == [i \in DOMAIN db.items |->
                        IF i \in mine
                        THEN ValidatedItem(db.items[i], prods, t)
                        ELSE db.items[i]]
             per == ValidateItems(db.items, prods, c, 1, hi)
             errors == per.errors
                        \o CartErrors(db.carts[c], Cardinality(mine), t)
             warnings == per.warnings
                        \o CartWarnings(SumQuantity(its1, c, 1, hi))
         IN [db |-> [db EXCEPT !.items = its1],
             ret |-> Len(errors) = 0,
             errors |-> errors, warnings |-> warnings]

\* Lines 221-231 and 238-252: the messages of optimize_cart for the items of
\* cart c with ids k..hi; unavailable is the first loop, the rest the second.
RECURSIVE OptimizeMessages(_, _, _, _, _, _)
OptimizeMessages(its, prods, c, k, hi, unavailable) ==
    IF k > hi THEN <<>>
    ELSE IF k = hi
    THEN IF ~(k \in DOMAIN its /\ its[k].cart_id = c) THEN <<>>
         ELSE IF ~ProductExists(its[k], prods)
         THEN IF unavailable
              THEN <<Msg("removed_unavailable", its[k].product_id)>>
              ELSE <<>>
         ELSE IF unavailable THEN <<>>
         ELSE IF its[k].quantity < 1
         THEN <<Msg("removed_invalid_quantity", its[k].product_id)>>
         ELSE IF its[k].quantity > MAX_QUANTITY
         THEN <<Msg("reduced_quantity", its[k].product_id)>>
         ELSE <<>>
    ELSE OptimizeMessages(its, prods, c, k, (k + hi) \div 2, unavailable)
         \o OptimizeMessages(its, prods, c, (k + hi) \div 2 + 1, hi,
                             unavailable)

\* optimize_cart that deletes nothing and only caps quantities.
OptimizeCart_KeepsUnavailable(db, prods, c, t) ==
    LET mine == ItemsOf(db.items, c)
        high == {i \in mine : db.items[i].quantity > MAX_QUANTITY}
    IN IF GetCartById(db, c) = NoId
       THEN [db |-> db, ret |-> FALSE,
             messages |-> <<Msg("not_found", NoId)>>]
       ELSE IF high = {}
       THEN [db |-> db, ret |-> FALSE,
             messages |-> <<Msg("already_optimized", NoId)>>]
       ELSE [db |-> [db EXCEPT !.items =
                        [i \in DOMAIN db.items |->
                            IF i \in high
                            THEN [db.items[i] EXCEPT
                                    !.quantity = MAX_QUANTITY,
                                    !.updated_at = t]
                            ELSE db.items[i]]],
             ret |-> TRUE,
             messages |-> <<Msg("reduced_quantity", NoId)>>]

\* optimize_cart(c) at time t.  ret is changes_made.
OptimizeCart(db, prods, c, t) ==
    IF GetCartById(db, c) = NoId
    THEN [db |-> db, ret |-> FALSE, messages |-> <<Msg("not_found", NoId)>>]
    ELSE LET mine == ItemsOf(db.items, c)
             hi == db.nextItemId - 1
             gone == {i \in mine : \/ ~ProductExists(db.items[i], prods)
                                     \/ db.items[i].quantity < 1}
             high == {i \in mine \ gone :
                        db.items[i].quantity > MAX_QUANTITY}
             its1 == [i \in DOMAIN db.items \ gone |->
                        IF i \in high
                        THEN [db.items[i] EXCEPT !.quantity = MAX_QUANTITY,
                                                 !.updated_at = t]
                        ELSE db.items[i]]
             messages ==
                 OptimizeMessages(db.items, prods, c, 1, hi, TRUE)
                 \o OptimizeMessages(db.items, prods, c, 1, hi, FALSE)
         IN IF gone = {} /\ high = {}
            THEN [db |-> db, ret |-> FALSE,
                  messages |-> <<Msg("already_optimized", NoId)>>]
            ELSE [db |-> [db EXCEPT !.items = its1,
                                    !.carts = TouchCart(db.carts, c, t)],
                  ret |-> TRUE, messages |-> messages]

\* get_cart_health_report without the test of line 304: the None cart fails
\* at its first attribute.
GetCartHealthReport_NoCartCheck(db, prods, c, t) ==
    [db |-> ResolveAndValidateCart(db, prods, c, t).db,
     ret |-> NoId, err |-> "AttributeError"]

\* get_cart_health_report(c) at time t.  Line 307 runs
\* resolve_and_validate_cart, commit included.  Cart.status is mapped on a
\* String column (models/cart.py, lines 46-48), so the status of a loaded
\* cart is a str and cart.status.value at line 319 raises AttributeError.
GetCartHealthReport(db, prods, c, t) ==
    IF GetCartById(db, c) = NoId
    THEN [db |-> db, ret |-> [error |-> "Cart not found"], err |-> ""]
    ELSE [db |-> ResolveAndValidateCart(db, prods, c, t).db,
          ret |-> NoId, err |-> "AttributeError"]

\* Hours in a day: days_old * 24 * 60 * 60 at line 280, the clock of
\* cleanup_abandoned_carts being read in hours.
HOURS_PER_DAY == 24

\* datetime.timestamp() of a naive datetime: the datetime is read as local
\* time of the server's zone z, whose UTC offset is z.before until the
\* instant z.switch and z.after from then on.
Timestamp(naive, z) ==
    IF naive - z.before < z.switch THEN naive - z.before
    ELSE naive - z.after

\* datetime.fromtimestamp(ts): the naive local time of the instant ts.
FromTimestamp(ts, z) == ts + (IF ts < z.switch THEN z.before ELSE z.after)

\* Lines 280-281: cutoff_datetime for the clock reading t (utcnow()).
CutoffDatetime(t, days_old, z) ==
    FromTimestamp(Timestamp(t, z) - days_old * HOURS_PER_DAY, z)

\* The WHERE clause of lines 284-286.
AbandonedCarts(cs, cutoff) ==
    {c \in DOMAIN cs : cs[c].status = ABANDONED /\ cs[c].updated_at < cutoff}

\* cleanup_abandoned_carts whose DELETE of the items has no WHERE clause.
CleanupAbandonedCarts_AllItems(db, days_old, t, z) ==
    LET gone == AbandonedCarts(db.carts, CutoffDatetime(t, days_old, z)) IN
    [db |-> [db EXCEPT
                !.carts = [c \in DOMAIN db.carts \ gone |-> db.carts[c]],
                !.items = IF gone = {} THEN db.items ELSE <<>>],
     ret |-> Cardinality(gone)]

\* cleanup_abandoned_carts(days_old) at time t on a server in zone z.  The
\* delete of a cart cascades to its items (models/cart.py, lines 60-62).
\* ret is the count.
CleanupAbandonedCarts(db, days_old, t, z) ==
    LET gone == AbandonedCarts(db.carts, CutoffDatetime(t, days_old, z)) IN
    [db |-> [db EXCEPT
                !.carts = [c \in DOMAIN db.carts \ gone |-> db.carts[c]],
                !.items = DeleteItems(db.items,
                              {i \in DOMAIN db.items :
                                  db.items[i].cart_id \in gone})],
     ret |-> Cardinality(gone)]

\* ------------------------------------------------------- dependencies/cart.py
\* get_current_cart(session_id = sid, current_user = uid) at time t.  A
\* session id is a cookie value and never equals the text of a cart id.
\* merged: the (source, target) pair when merge_carts ran, else <<>>.
GetCurrentCart(db, uid, sid, t) ==
    IF uid # NoId
    THEN LET r1 == GetOrCreateCart(db, uid, NoId, t) IN
         IF r1.err # ""
         THEN IF sid # NoId
              THEN LET rf == GetOrCreateCart(db, NoId, sid, t) IN
                   [db |-> rf.db, ret |-> rf.ret, err |-> rf.err,
                    merged |-> <<>>]
              ELSE [db |-> db, ret |-> NoId, err |-> r1.err, merged |-> <<>>]
         ELSE IF sid # NoId
         THEN LET r2 == GetOrCreateCart(r1.db, NoId, sid, t) IN
              IF r2.err # ""
              THEN [db |-> r1.db, ret |-> r1.ret, err |-> "", merged |-> <<>>]
              ELSE IF r2.ret # r1.ret /\ ItemsOf(r2.db.items, r2.ret) # {}
              THEN LET r3 == MergeCarts(r2.db, r2.ret, r1.ret, t) IN
                   IF r3.err # ""
                   THEN [db |-> r2.db, ret |-> r1.ret, err |-> "",
                         merged |-> <<>>]
                   ELSE [db |-> r3.db, ret |-> r3.ret, err |-> "",
                         merged |-> <<r2.ret, r1.ret>>]
              ELSE [db |-> r2.db, ret |-> r1.ret, err |-> "", merged |-> <<>>]
         ELSE [db |-> r1.db, ret |-> r1.ret, err |-> "", merged |-> <<>>]
    ELSE IF sid = NoId
    THEN [db |-> db, ret |-> NoId, err |-> "ValueError", merged |-> <<>>]
    ELSE LET r == GetOrCreateCart(db, NoId, sid, t) IN
         [db |-> r.db, ret |-> r.ret, err |-> r.err, merged |-> <<>>]

\* ------------------------------------------------------------ initial state
\* What the last completed operation was: for a merge, a is the source
\* (session) cart and b the target (user) cart; messages is what it returned.
\* args: the arguments of a service call made on its own; ret: what it returned.
Last(op, a, b, msgs, err) ==
    [op |-> op, a |-> a, b |-> b, messages |-> msgs, err |-> err,
     args |-> <<>>, ret |-> NoId]

\* The record of a service call made on its own.
LastCall(op, args, ret, err) ==
    [Last(op, NoId, NoId, <<>>, err) EXCEPT !.args = args, !.ret = ret]

IdleCall == [pc |-> "idle", user_id |-> NoId, session_id |-> NoId,
             found |-> {}]

\* The catalog: product.price of each product.
Catalog == [p \in ProductIds |-> IF p = 1 THEN 1000 ELSE 1011]

\* An empty cart database.
Init ==
    /\ carts = <<>>
    /\ items = <<>>
    /\ products = Catalog
    /\ nextCartId = 1
    /\ nextItemId = 1
    /\ now = 0
    /\ calls = [pr \in Procs |-> IdleCall]
    /\ last = Last("init", NoId, NoId, <<>>, "")

\* The database after an operation, within the bounds of the model.
Commit(db) ==
    /\ db.nextCartId <= MaxCarts + 1
    /\ db.nextItemId <= MaxItems + 1
    /\ carts' = db.carts
    /\ items' = db.items
    /\ nextCartId' = db.nextCartId
    /\ nextItemId' = db.nextItemId

\* ------------------------------------------------------------------ actions
\* GET /cart: get_current_cart for the request's user and session token.
\* last.a, last.b: source and target of the merge it ran (NoId if none).
GetCart(uid, sid) ==
    LET r == GetCurrentCart(DB, uid, sid, now) IN
    /\ Commit(r.db)
    /\ last' = Last("get_current_cart",
                    IF r.merged = <<>> THEN NoId ELSE r.merged[1],
                    IF r.merged = <<>> THEN NoId ELSE r.merged[2],
                    <<>>, r.err)
    /\ UNCHANGED <<products, now, calls>>

\* POST /cart/items: get_current_cart, then add_item on the cart it returned.
AddItemToCart(uid, sid, p, q) ==
    LET r == GetCurrentCart(DB, uid, sid, now)
        ra == AddItem(r.db, products, r.ret, p, q, now)
    IN
    /\ r.err = ""
    /\ \A i \in DOMAIN ra.db.items : ra.db.items[i].quantity <= MaxQty
    /\ Commit(ra.db)
    /\ last' = Last("add_item", NoId, NoId, <<>>, ra.err)
    /\ UNCHANGED <<products, now, calls>>

\* POST /cart/merge: merge the session cart into the user's cart.
MergeSessionCart(uid, sid) ==
    LET r1 == GetOrCreateCart(DB, uid, NoId, now)
        r2 == GetOrCreateCart(r1.db, NoId, sid, now)
        r3 == MergeCarts(r2.db, r2.ret, r1.ret, now)
    IN
    /\ r1.err = "" /\ r2.err = "" /\ r1.ret # r2.ret
    /\ Commit(r3.db)
    /\ last' = Last("merge_carts", r2.ret, r1.ret, <<>>, r3.err)
    /\ UNCHANGED <<products, now, calls>>

\* resolve_cart_conflicts(user_cart = u, session_cart = s), u a user's cart.
ResolveConflicts(u, s) ==
    LET r == ResolveCartConflicts(DB, u, s, now) IN
    /\ u \in DOMAIN carts /\ s \in DOMAIN carts
    /\ carts[u].user_id # NoId
    /\ Commit(r.db)
    /\ last' = Last("resolve_cart_conflicts", s, u, r.messages, "")
    /\ UNCHANGED <<products, now, calls>>

Next ==
    \/ \E uid \in Users \cup {NoId}, sid \in Sessions \cup {NoId} :
          GetCart(uid, sid)
    \/ \E uid \in Users \cup {NoId}, sid \in Sessions,
          p \in ProductIds, q \in QtyChoices : AddItemToCart(uid, sid, p, q)
    \/ \E uid \in Users, sid \in Sessions : MergeSessionCart(uid, sid)
    \/ \E u \in DOMAIN carts, s \in DOMAIN carts : ResolveConflicts(u, s)

\* Requests served one after the other, from an empty database.
Spec == Init /\ [][Next]_vars

\* ------------------------------------------ resolve_cart_conflicts on its own
\* The rows a cart can hold: item 1 and 2 are products 1 and 2 in cart 1,
\* items 3 and 4 are products 1 and 2 in cart 2, each added once or twice, at
\* any of the catalog prices, at any clock reading.
SlotCart(i) == IF i <= 2 THEN 1 ELSE 2

SlotProduct(i) == IF i % 2 = 1 THEN 1 ELSE 2

ItemRows(i) ==
    [cart_id : {SlotCart(i)}, product_id : {SlotProduct(i)},
     quantity : {33, 66}, unit_price : PriceChoices, updated_at : Times]

\* A user's cart (1) and a guest's cart (2), both ACTIVE, filled by earlier
\* add_item requests; the clock reads any of Times.
InitResolve ==
    /\ carts = (1 :> NewCart(1, NoId, 0)) @@ (2 :> NewCart(NoId, 1, 0))
    /\ \E S \in SUBSET (1..4) :
          /\ Cardinality(S) <= MaxItems
          /\ items \in {f \in [S -> UNION {ItemRows(i) : i \in 1..4}] :
                            \A i \in S : f[i] \in ItemRows(i)}
    /\ products = Catalog
    /\ nextCartId = 3
    /\ nextItemId = 5
    /\ now \in Times
    /\ calls = [pr \in Procs |-> IdleCall]
    /\ last = Last("init", NoId, NoId, <<>>, "")

\* resolve_cart_conflicts between the two carts, in either role of the guest
\* cart's owner (the user cart is always cart 1).
NextResolve ==
    \E u \in DOMAIN carts, s \in DOMAIN carts :
        LET r == ResolveCartConflicts(DB, u, s, now) IN
        /\ carts[u].user_id # NoId
        /\ carts' = r.db.carts
        /\ items' = r.db.items
        /\ last' = Last("resolve_cart_conflicts", s, u, r.messages, "")
        /\ UNCHANGED <<products, nextCartId, nextItemId, now, calls>>

SpecResolve == InitResolve /\ [][NextResolve]_vars

\* ------------------------------------------ service methods called on their own
\* The clock reading of the first call; each call is made a day after the
\* one before.
StartTime == 8

\* Cart ids a caller can pass: the carts of the initial state, the cart a call
\* may create, and an id that names no cart.
CartIds == 1..4

\* Item ids a caller can pass: the items of the initial state and one more.
ItemIds == 1..5

\* A product id with no row in the product table.
UnknownProduct == 3

\* Quantities passed to update_item_quantity: the service accepts any integer,
\* PUT /cart/items/{item_id} only 1..99.
UpdateQtys == {0, 33}

\* POST /cart/items answering every failure of add_item with 500.
AddItemStatus_Always500(err) == IF err = "" THEN 200 ELSE 500

\* POST /cart/items, lines 44-62: the HTTP status for the outcome of add_item.
AddItemStatus(err) ==
    IF err = "" THEN 200 ELSE IF err = "ValueError" THEN 404 ELSE 500

\* The rows of an item of the initial state: added once or twice at the
\* catalog price on day 0.
StoreRows(i) ==
    [cart_id : {SlotCart(i)}, product_id : {SlotProduct(i)},
     quantity : {33, 66}, unit_price : {Catalog[SlotProduct(i)]},
     updated_at : {0}]

\* The user's cart row of the initial state (cart 1), if any.
StoreUserCarts == {<<>>, 1 :> NewCart(1, NoId, 0)}

\* The guest's cart row of the initial state (cart 2), if any: created on day
\* 0 or on day StartTime, and ABANDONED by an earlier merge or not.
StoreSessionCarts ==
    {<<>>, 2 :> NewCart(NoId, 1, 0), 2 :> NewCart(NoId, 1, StartTime),
     2 :> [NewCart(NoId, 1, 0) EXCEPT !.status = ABANDONED]}

\* Up to two carts filled by earlier add_item requests, on day StartTime.
InitStore ==
    /\ \E uc \in StoreUserCarts, sc \in StoreSessionCarts : carts = uc @@ sc
    /\ \E S \in SUBSET (1..4) :
          /\ Cardinality(S) <= MaxItems
          /\ \A i \in S : SlotCart(i) \in DOMAIN carts
          /\ items \in {f \in [S -> UNION {StoreRows(i) : i \in 1..4}] :
                            \A i \in S : f[i] \in StoreRows(i)}
    /\ products = Catalog
    /\ nextCartId = 3
    /\ nextItemId = 5
    /\ now = StartTime
    /\ calls = [pr \in Procs |-> IdleCall]
    /\ last = Last("init", NoId, NoId, <<>>, "")

\* The database after a service call, the next call being made a day later.
Served(db) ==
    /\ now < StartTime + MaxCalls
    /\ now' = now + 1
    /\ carts' = db.carts
    /\ items' = db.items
    /\ nextCartId' = db.nextCartId
    /\ nextItemId' = db.nextItemId
    /\ UNCHANGED <<products, calls>>

CallGetOrCreateCart(uid, sid) ==
    LET r == GetOrCreateCart(DB, uid, sid, now) IN
    /\ Served(r.db)
    /\ last' = LastCall("get_or_create_cart",
                        [user_id |-> uid, session_id |-> sid], r.ret, r.err)

CallGetCurrentCart(uid, sid) ==
    LET r == GetCurrentCart(DB, uid, sid, now) IN
    /\ Served(r.db)
    /\ last' = LastCall("get_current_cart",
                        [user_id |-> uid, session_id |-> sid], r.ret, r.err)

CallAddItem(c, p, q) ==
    LET r == AddItem(DB, products, c, p, q, now) IN
    /\ Served(r.db)
    /\ last' = LastCall("add_item",
                        [cart_id |-> c, product_id |-> p, quantity |-> q],
                        r.ret, r.err)

CallUpdateItemQuantity(c, i, q) ==
    LET r == UpdateItemQuantity(DB, c, i, q, now) IN
    /\ Served(r.db)
    /\ last' = LastCall("update_item_quantity",
                        [cart_id |-> c, item_id |-> i, quantity |-> q],
                        r.ret, "")

CallRemoveItem(c, i) ==
    LET r == RemoveItem(DB, c, i, now) IN
    /\ Served(r.db)
    /\ last' = LastCall("remove_item", [cart_id |-> c, item_id |-> i],
                        r.ret, "")

CallClearCart(c) ==
    LET r == ClearCart(DB, c, now) IN
    /\ Served(r.db)
    /\ last' = LastCall("clear_cart", [cart_id |-> c], r.ret, "")

\* merge_carts(src, tgt); either id may be one that names no cart.
CallMergeCarts(src, tgt) ==
    LET r == MergeCarts(DB, src, tgt, now) IN
    /\ Served(r.db)
    /\ last' = LastCall("merge_carts",
                        [source_cart_id |-> src, target_cart_id |-> tgt],
                        r.ret, r.err)

\* resolve_cart_conflicts(user_cart = u, session_cart = s), u a user's cart.
CallResolveCartConflicts(u, s) ==
    LET r == ResolveCartConflicts(DB, u, s, now) IN
    /\ carts[u].user_id # NoId
    /\ Served(r.db)
    /\ last' = LastCall("resolve_cart_conflicts",
                        [user_cart |-> u, session_cart |-> s], r.ret, "")

CallResolveAndValidateCart(c) ==
    LET r == ResolveAndValidateCart(DB, products, c, now) IN
    /\ Served(r.db)
    /\ last' = LastCall("resolve_and_validate_cart", [cart_id |-> c],
                        [is_valid |-> r.ret, errors |-> r.errors,
                         warnings |-> r.warnings], "")

CallOptimizeCart(c) ==
    LET r == OptimizeCart(DB, products, c, now) IN
    /\ Served(r.db)
    /\ last' = LastCall("optimize_cart", [cart_id |-> c],
                        [changed |-> r.ret, messages |-> r.messages], "")

CallCleanupExpiredCarts ==
    LET r == CleanupExpiredCarts(DB, now) IN
    /\ Served(r.db)
    /\ last' = LastCall("cleanup_expired_carts", <<>>, r.ret, "")

NextStore ==
    \/ \E uid \in Users : CallGetOrCreateCart(uid, NoId)
    \/ \E sid \in Sessions \cup {NoId} : CallGetOrCreateCart(NoId, sid)
    \/ \E uid \in Users \cup {NoId}, sid \in Sessions \cup {NoId} :
          CallGetCurrentCart(uid, sid)
    \/ \E c \in DOMAIN carts, p \in ProductIds \cup {UnknownProduct},
          q \in QtyChoices : CallAddItem(c, p, q)
    \/ \E c \in DOMAIN carts, i \in ItemIds, q \in UpdateQtys :
          CallUpdateItemQuantity(c, i, q)
    \/ \E c \in DOMAIN carts, i \in ItemIds : CallRemoveItem(c, i)
    \/ \E c \in CartIds : CallClearCart(c)
    \/ \E src \in CartIds, tgt \in CartIds : CallMergeCarts(src, tgt)
    \/ \E u \in DOMAIN carts, s \in DOMAIN carts :
          CallResolveCartConflicts(u, s)
    \/ \E c \in CartIds : CallResolveAndValidateCart(c)
    \/ \E c \in CartIds : CallOptimizeCart(c)
    \/ CallCleanupExpiredCarts

\* Service calls made one after the other on a filled database.
SpecStore == InitStore /\ [][NextStore]_vars

\* ------------------------------------------- validation, optimisation, summary
\* Quantities of the rows of a cart to validate: 0 inserted by
\* add_item(quantity = 0), which the service accepts, 35 by a request, 150 by
\* repeated add_item requests for one product.
CheckupQtys == {0, 35, 150}

\* Cart ids passed to the calls: the cart of the initial state and an id that
\* names no cart.
CheckupCartIds == {1, 2}

\* An item of the cart: its product's snapshot price is any of PriceChoices.
CheckupRows(i) ==
    [cart_id : {1}, product_id : {SlotProduct(i)}, quantity : CheckupQtys,
     unit_price : PriceChoices, updated_at : {0}]

\* Cart 1: the cart of a user, or of a guest created on day 0 or on day
\* StartTime.
CheckupCarts ==
    {NewCart(1, NoId, 0), NewCart(NoId, 1, 0), NewCart(NoId, 1, StartTime)}

\* The product table: the catalog, or the catalog after DELETE /products/2 on
\* a database that does not enforce the foreign key of cart_item.product_id
\* (SQLite, tests/conftest.py line 19).
CheckupCatalogs == {Catalog, [p \in {1} |-> Catalog[1]]}

\* A catalog of enough products to fill a cart beyond MAX_CART_ITEMS.
BigCatalog == [p \in 1..(MAX_CART_ITEMS + 1) |-> 1000]

\* A cart of n products, q of each, at the catalog price.
BigItems(n, q) ==
    [i \in 1..n |-> [cart_id |-> 1, product_id |-> i, quantity |-> q,
                     unit_price |-> BigCatalog[i], updated_at |-> 0]]

\* One cart on day StartTime: up to two items of any quantity and snapshot
\* price, or a cart of 100 or 101 products.
InitCheckup ==
    /\ \E row \in CheckupCarts : carts = 1 :> row
    /\ \/ /\ \E S \in SUBSET (1..2) :
                items \in {f \in [S -> UNION {CheckupRows(i) : i \in 1..2}] :
                              \A i \in S : f[i] \in CheckupRows(i)}
          /\ products \in CheckupCatalogs
          /\ nextItemId = 3
       \/ \E n \in {MAX_CART_ITEMS, MAX_CART_ITEMS + 1}, q \in {1, 6} :
             /\ items = BigItems(n, q)
             /\ products = BigCatalog
             /\ nextItemId = n + 1
    /\ nextCartId = 2
    /\ now = StartTime
    /\ calls = [pr \in Procs |-> IdleCall]
    /\ last = Last("init", NoId, NoId, <<>>, "")

CallGetCartHealthReport(c) ==
    LET r == GetCartHealthReport(DB, products, c, now) IN
    /\ Served(r.db)
    /\ last' = LastCall("get_cart_health_report", [cart_id |-> c],
                        r.ret, r.err)

\* GET /cart/summary on cart c; up: see Round2.
CallCalculateCartSummary(c, up) ==
    /\ c \in DOMAIN carts
    /\ Served(DB)
    /\ last' = LastCall("calculate_cart_summary", [cart_id |-> c],
                        CalculateCartSummary(DB, c, up), "")

NextCheckup ==
    \/ \E c \in CheckupCartIds : CallResolveAndValidateCart(c)
    \/ \E c \in CheckupCartIds : CallOptimizeCart(c)
    \/ \E c \in CheckupCartIds : CallGetCartHealthReport(c)
    \/ \E c \in CheckupCartIds, up \in BOOLEAN :
          CallCalculateCartSummary(c, up)

\* Validation, optimisation, health report and summary of one cart.
SpecCheckup == InitCheckup /\ [][NextCheckup]_vars

\* ------------------------------------------------------ cleanup_abandoned_carts
\* The clock of this specification counts hours.  The sweep runs at hour
\* SweepTime.
SweepTime == 48

\* days_old as passed to POST /cart/admin/cleanup-abandoned.
DaysOld == {0, 1}

\* The server's time zone: UTC, or a zone whose daylight saving time ended
\* or began at hour 36.
TimeZones ==
    {[switch |-> 0, before |-> 0, after |-> 0],
     [switch |-> 36, before |-> 2, after |-> 1],
     [switch |-> 36, before |-> 1, after |-> 2]}

\* A guest's cart created at hour 0 and last written at hour t.
SweepCart(sid, status, t) ==
    [user_id |-> NoId, session_id |-> sid, status |-> status,
     updated_at |-> t, expires_at |-> EXPIRY_DAYS * HOURS_PER_DAY]

\* The carts a sweep can meet: ACTIVE, merged away (ABANDONED) or swept by
\* cleanup_expired_carts (EXPIRED), last written a day before the sweep, an
\* hour earlier or later, or an hour before the sweep.
SweepCarts(sid) ==
    {SweepCart(sid, st, t) :
        st \in {ACTIVE, ABANDONED, EXPIRED},
        t \in {SweepTime - HOURS_PER_DAY - 1, SweepTime - HOURS_PER_DAY,
               SweepTime - HOURS_PER_DAY + 1, SweepTime - 1}}

\* Two guests' carts (1 and 2) with the items added to them.
InitSweep ==
    /\ \E c1 \in SweepCarts(1), c2 \in SweepCarts(2) :
          carts = (1 :> c1) @@ (2 :> c2)
    /\ \E S \in SUBSET (1..4) :
          /\ Cardinality(S) <= MaxItems
          /\ items = [i \in S |->
                        [cart_id |-> SlotCart(i),
                         product_id |-> SlotProduct(i), quantity |-> 33,
                         unit_price |-> Catalog[SlotProduct(i)],
                         updated_at |-> 0]]
    /\ products = Catalog
    /\ nextCartId = 3
    /\ nextItemId = 5
    /\ now = SweepTime
    /\ calls = [pr \in Procs |-> IdleCall]
    /\ last = Last("init", NoId, NoId, <<>>, "")

\* One sweep; the next would run an hour later.
CallCleanupAbandonedCarts(days_old, z) ==
    LET r == CleanupAbandonedCarts(DB, days_old, now, z) IN
    /\ now = SweepTime
    /\ now' = now + 1
    /\ carts' = r.db.carts
    /\ items' = r.db.items
    /\ UNCHANGED <<products, nextCartId, nextItemId, calls>>
    /\ last' = LastCall("cleanup_abandoned_carts",
                        [days_old |-> days_old, zone |-> z], r.ret, "")

NextSweep ==
    \E days_old \in DaysOld, z \in TimeZones :
        CallCleanupAbandonedCarts(days_old, z)

\* POST /cart/admin/cleanup-abandoned on a database of two carts.
SpecSweep == InitSweep /\ [][NextSweep]_vars

\* ------------------------------------- get_or_create_cart, request by request
\* Lines 30-45: the SELECT of a get_or_create_cart call.  The call is
\* suspended at each await, so other calls run between its SELECT and its
\* commit.
GocSelect(pr, uid, sid) ==
    LET found == ActiveCartsOf(carts, uid, sid) IN
    /\ calls[pr].pc = "idle"
    /\ uid # NoId \/ sid # NoId
    /\ calls' = [calls EXCEPT ![pr] =
                    [pc |-> IF Cardinality(found) > 1 THEN "failed"
                            ELSE "selected",
                     user_id |-> uid, session_id |-> sid, found |-> found]]
    /\ last' = Last("select", NoId, NoId, <<>>, "")
    /\ UNCHANGED <<carts, items, products, nextCartId, nextItemId, now>>

\* Lines 47-68: touch the cart that was found, or insert a new one; commit.
GocCommit(pr) ==
    LET call == calls[pr] IN
    /\ call.pc = "selected"
    /\ IF call.found # {}
       THEN LET c == CHOOSE x \in call.found : TRUE IN
            /\ carts' = [carts EXCEPT ![c].updated_at = now]
            /\ nextCartId' = nextCartId
       ELSE /\ nextCartId <= MaxCarts
            /\ carts' = carts @@ (nextCartId :>
                            NewCart(call.user_id, call.session_id, now))
            /\ nextCartId' = nextCartId + 1
    /\ calls' = [calls EXCEPT ![pr] = IdleCall]
    /\ last' = Last("get_or_create_cart", NoId, NoId, <<>>, "")
    /\ UNCHANGED <<items, products, nextItemId, now>>

\* scalar_one_or_none raised MultipleResultsFound: the call is over.
GocFail(pr) ==
    /\ calls[pr].pc = "failed"
    /\ calls' = [calls EXCEPT ![pr] = IdleCall]
    /\ last' = Last("get_or_create_cart", NoId, NoId, <<>>,
                    "MultipleResultsFound")
    /\ UNCHANGED <<carts, items, products, nextCartId, nextItemId, now>>

NextConcurrent ==
    \/ \E pr \in Procs, uid \in Users : GocSelect(pr, uid, NoId)
    \/ \E pr \in Procs, sid \in Sessions : GocSelect(pr, NoId, sid)
    \/ \E pr \in Procs : GocCommit(pr)
    \/ \E pr \in Procs : GocFail(pr)

\* Concurrent get_or_create_cart calls, from an empty database.
SpecConcurrent == Init /\ [][NextConcurrent]_vars

\* --------------------------------------------------- add_item, request by request
\* A guest's empty cart (cart 1).
InitAdd ==
    /\ carts = 1 :> NewCart(NoId, 1, 0)
    /\ items = <<>>
    /\ products = Catalog
    /\ nextCartId = 2
    /\ nextItemId = 1
    /\ now = 0
    /\ calls = [pr \in Procs |-> IdleCall]
    /\ last = Last("init", NoId, NoId, <<>>, "")

\* add_item, lines 85-97: the two SELECTs.  found is the existing row and
\* read the quantity loaded with it.  The call is suspended at each await, so
\* other calls run between its SELECTs and its commit.
AddSelect(pr, c, p, q) ==
    LET existing == {i \in DOMAIN items :
                        items[i].cart_id = c /\ items[i].product_id = p}
        e == IF existing = {} THEN NoId ELSE CHOOSE x \in existing : TRUE
    IN
    /\ calls[pr].pc = "idle"
    /\ p \in DOMAIN products
    /\ calls' = [calls EXCEPT ![pr] =
                    [pc |-> "selected", cart_id |-> c, product_id |-> p,
                     quantity |-> q, found |-> e,
                     read |-> IF e = NoId THEN 0 ELSE items[e].quantity]]
    /\ last' = Last("select", NoId, NoId, <<>>, "")
    /\ UNCHANGED <<carts, items, products, nextCartId, nextItemId, now>>

\* add_item, lines 99-124: the UPDATE of the row that was found, or the INSERT
\* of a new one, and the commit.  The INSERT of a second row for the same
\* cart and product violates uq_cart_product: the commit raises IntegrityError,
\* which add_item does not catch and POST /cart/items answers with 500.
AddCommit(pr) ==
    LET call == calls[pr]
        rows == {i \in DOMAIN items :
                    /\ items[i].cart_id = call.cart_id
                    /\ items[i].product_id = call.product_id}
        args == [cart_id |-> call.cart_id, product_id |-> call.product_id,
                 quantity |-> call.quantity]
    IN
    /\ call.pc = "selected"
    /\ IF call.found # NoId
       THEN /\ call.read + call.quantity <= MaxQty
            /\ items' = [items EXCEPT
                           ![call.found].quantity = call.read + call.quantity,
                           ![call.found].updated_at = now]
            /\ nextItemId' = nextItemId
            /\ last' = LastCall("add_item", args, call.found, "")
       ELSE IF rows # {}
       THEN /\ UNCHANGED <<items, nextItemId>>
            /\ last' = LastCall("add_item", args, NoId, "IntegrityError")
       ELSE /\ nextItemId <= MaxItems
            /\ items' = items @@
                           (nextItemId :>
                               [cart_id |-> call.cart_id,
                                product_id |-> call.product_id,
                                quantity |-> call.quantity,
                                unit_price |-> products[call.product_id],
                                updated_at |-> now])
            /\ nextItemId' = nextItemId + 1
            /\ last' = LastCall("add_item", args, nextItemId, "")
    /\ calls' = [calls EXCEPT ![pr] = IdleCall]
    /\ UNCHANGED <<carts, products, nextCartId, now>>

NextAdd ==
    \/ \E pr \in Procs, c \in DOMAIN carts, p \in ProductIds,
          q \in QtyChoices : AddSelect(pr, c, p, q)
    \/ \E pr \in Procs : AddCommit(pr)

\* Concurrent POST /cart/items requests on one cart.
SpecAddConcurrent == InitAdd /\ [][NextAdd]_vars

\* ------------------------------------- get_current_cart when a lookup fails
\* The owner of cart c in the tables below: carts 1 and 2 are user 1's,
\* carts 3 and 4 are session 1's.
FallbackCart(c) ==
    IF c <= 2 THEN NewCart(1, NoId, 0) ELSE NewCart(NoId, 1, 0)

\* Cart tables with up to two ACTIVE carts per identity, as concurrent
\* get_or_create_cart calls leave them; each cart is empty or holds product 1.
InitFallback ==
    /\ \E C \in SUBSET (1..4) : carts = [c \in C |-> FallbackCart(c)]
    /\ \E S \in SUBSET (DOMAIN carts) :
          items = [i \in S |-> [cart_id |-> i, product_id |-> 1,
                                quantity |-> 33, unit_price |-> Catalog[1],
                                updated_at |-> 0]]
    /\ products = Catalog
    /\ nextCartId = 5
    /\ nextItemId = 5
    /\ now = StartTime
    /\ calls = [pr \in Procs |-> IdleCall]
    /\ last = Last("init", NoId, NoId, <<>>, "")

NextFallback ==
    \E uid \in Users \cup {NoId}, sid \in Sessions \cup {NoId} :
        CallGetCurrentCart(uid, sid)

\* get_current_cart on cart tables that make get_or_create_cart fail.
SpecFallback == InitFallback /\ [][NextFallback]_vars

\* ------------------------------------- get_current_cart, request by request
\* The rows of cart c as get_or_create_cart's SELECT loads them into the
\* request's database session: the cart and, by lazy="selectin", its items.
LoadCart(db, c) ==
    [carts |-> (c :> db.carts[c]),
     items |-> [i \in ItemsOf(db.items, c) |-> db.items[i]]]

\* The rows a request's session has loaded so far, after it loads cart c.  A
\* row already in the session keeps the values of its first load
\* (expire_on_commit=False, no populate_existing).
Loaded(view, db, c) ==
    [carts |-> view.carts @@ LoadCart(db, c).carts,
     items |-> view.items @@ LoadCart(db, c).items]

\* No rows loaded.
NoView == [carts |-> <<>>, items |-> <<>>]

\* A request that reads the tables again for the merge.
MergeView_Reloaded(db, view) == db

\* The carts and items merge_carts works on in a request whose session has
\* loaded view: get_cart_by_id returns the carts of the session, with the
\* items lists and the column values of their first load.
MergeView(db, view) ==
    [db EXCEPT !.carts = view.carts, !.items = view.items]

\* The commit of a request that loaded view and changed it to res, on the
\* tables cur: an UPDATE of each changed row that sets the columns the
\* request assigned, to the values it computed.
Flush(cur, view, res) ==
    [cur EXCEPT
       !.carts = [c \in DOMAIN cur.carts |->
                    IF c \in DOMAIN view.carts
                    THEN [f \in DOMAIN cur.carts[c] |->
                            IF res.carts[c][f] # view.carts[c][f]
                            THEN res.carts[c][f] ELSE cur.carts[c][f]]
                    ELSE cur.carts[c]],
       !.items = [i \in DOMAIN cur.items |->
                    IF i \in DOMAIN view.items
                    THEN [f \in DOMAIN cur.items[i] |->
                            IF res.items[i][f] # view.items[i][f]
                            THEN res.items[i][f] ELSE cur.items[i][f]]
                    ELSE cur.items[i]]]

\* uq_cart_product: at most one row per cart and product.
UniqueCartProduct(its) ==
    \A i, j \in DOMAIN its :
        (its[i].cart_id = its[j].cart_id
            /\ its[i].product_id = its[j].product_id) => i = j

\* The tables after a step of a request, within the bounds of the model: one
\* cart more than MaxCarts, for the guest cart that replaces a merged one.
Stored(db) ==
    /\ db.nextCartId <= MaxCarts + 2
    /\ carts' = db.carts
    /\ items' = db.items
    /\ nextCartId' = db.nextCartId
    /\ nextItemId' = db.nextItemId
    /\ UNCHANGED <<products, now>>

\* User 1's cart (cart 1) and the cart of guest session 1 (cart 2), created
\* at StartTime or, created at 0, past its expires_at; cart 1 holds product
\* 1 or nothing (item 1), cart 2 any of products 1 and 2 (items 2 and 3).
InitLogin ==
    /\ \E born \in {0, StartTime} :
          carts = <<NewCart(1, NoId, 0), NewCart(NoId, 1, born)>>
    /\ \E S \in SUBSET (1..3) :
          items = [i \in S |->
                     [cart_id |-> IF i = 1 THEN 1 ELSE 2,
                      product_id |-> IF i = 3 THEN 2 ELSE 1,
                      quantity |-> 33,
                      unit_price |-> Catalog[IF i = 3 THEN 2 ELSE 1],
                      updated_at |-> 0]]
    /\ products = Catalog
    /\ nextCartId = 3
    /\ nextItemId = 4
    /\ now = StartTime
    /\ calls = [pr \in Procs |-> IdleCall]
    /\ last = Last("init", NoId, NoId, <<>>, "")

\* get_current_cart, lines 48-52 (and 71-75): get_or_create_cart for the
\* user.  When it raises, the request ends with the session cart.
LoginUserCart(pr, uid, sid) ==
    LET r1 == GetOrCreateCart(DB, uid, NoId, now)
        rf == GetOrCreateCart(DB, NoId, sid, now)
    IN
    /\ calls[pr].pc = "idle"
    /\ IF r1.err # ""
       THEN /\ Stored(rf.db)
            /\ calls' = calls
            /\ last' = Last("get_current_cart", NoId, NoId, <<>>, rf.err)
       ELSE /\ Stored(r1.db)
            /\ calls' = [calls EXCEPT ![pr] =
                           [pc |-> "user", user_id |-> uid,
                            session_id |-> sid, user_cart |-> r1.ret,
                            session_cart |-> NoId,
                            view |-> Loaded(NoView, r1.db, r1.ret)]]
            /\ last' = Last("select", NoId, NoId, <<>>, "")

\* get_current_cart, lines 55-60: get_or_create_cart for the session token
\* and the test session_cart.items on the items it loaded.  An exception ends
\* the request with the user cart (lines 65-67).
LoginSessionCart(pr) ==
    LET call == calls[pr]
        r2 == GetOrCreateCart(DB, NoId, call.session_id, now)
        view == Loaded(call.view, r2.db, r2.ret)
    IN
    /\ call.pc = "user"
    /\ IF r2.err # ""
       THEN /\ UNCHANGED <<carts, items, products, nextCartId, nextItemId,
                           now>>
            /\ calls' = [calls EXCEPT ![pr] = IdleCall]
            /\ last' = Last("get_current_cart", NoId, NoId, <<>>, "")
       ELSE /\ Stored(r2.db)
            /\ IF r2.ret # call.user_cart /\ ItemsOf(view.items, r2.ret) # {}
               THEN /\ calls' = [calls EXCEPT ![pr] =
                                   [call EXCEPT !.pc = "merge",
                                                !.session_cart = r2.ret,
                                                !.view = view]]
                    /\ last' = Last("select", NoId, NoId, <<>>, "")
               ELSE /\ calls' = [calls EXCEPT ![pr] = IdleCall]
                    /\ last' = Last("get_current_cart", NoId, NoId, <<>>, "")

\* get_current_cart, lines 61-67: merge_carts(session cart, user cart) on the
\* rows the request has loaded, and its commit.  A commit that would leave
\* two rows of one cart and product raises IntegrityError; like every
\* exception of the merge it ends the request with the user cart.  The
\* finished request keeps its record until the process serves the next one.
LoginMerge(pr) ==
    LET call == calls[pr]
        view == MergeView(DB, call.view)
        r3 == MergeCarts(view, call.session_cart, call.user_cart, now)
        db == Flush(DB, view, r3.db)
        ok == r3.err = "" /\ UniqueCartProduct(db.items)
    IN
    /\ call.pc = "merge"
    /\ Stored(IF ok THEN db ELSE DB)
    /\ calls' = [calls EXCEPT ![pr] = [call EXCEPT !.pc = "idle"]]
    /\ last' = Last("merge_carts", call.session_cart, call.user_cart, <<>>,
                    IF ok THEN ""
                    ELSE IF r3.err # "" THEN r3.err ELSE "IntegrityError")

\* POST /cart/cleanup: cleanup_expired_carts between the steps of the requests.
LoginSweep ==
    LET r == CleanupExpiredCarts(DB, now) IN
    /\ Stored(r.db)
    /\ calls' = calls
    /\ last' = LastCall("cleanup_expired_carts", <<>>, r.ret, "")

NextLogin ==
    \/ \E pr \in Procs, uid \in Users, sid \in Sessions :
          LoginUserCart(pr, uid, sid)
    \/ \E pr \in Procs : LoginSessionCart(pr)
    \/ \E pr \in Procs : LoginMerge(pr)
    \/ LoginSweep

\* Concurrent requests of a logged-in user that carry a guest session token.
SpecLogin == InitLogin /\ [][NextLogin]_vars

\* ------------------------------------------- snapshot prices and the catalog
\* Prices PUT /products/{product_id} sets.
NewPrices == {1000, 1010}

\* The snapshot price of an item of the initial state: the catalog price of
\* its product now, or 1.010, its price when the item was added.
PriceRows(i) ==
    [cart_id : {SlotCart(i)}, product_id : {SlotProduct(i)},
     quantity : {33}, unit_price : {Catalog[SlotProduct(i)], 1010},
     updated_at : {0}]

\* The product table: the catalog, or the catalog after product 1 was
\* repriced from 1.000 to 1.010.
PriceCatalogs == {Catalog, [Catalog EXCEPT ![1] = 1010]}

\* User 1's cart (cart 1) and a guest's cart (cart 2) on day StartTime, with
\* up to MaxItems items added on day 0.
InitPrices ==
    /\ carts = <<NewCart(1, NoId, 0), NewCart(NoId, 1, StartTime)>>
    /\ \E S \in SUBSET (1..4) :
          /\ Cardinality(S) <= MaxItems
          /\ items \in {f \in [S -> UNION {PriceRows(i) : i \in 1..4}] :
                            \A i \in S : f[i] \in PriceRows(i)}
    /\ products \in PriceCatalogs
    /\ nextCartId = 3
    /\ nextItemId = 5
    /\ now = StartTime
    /\ calls = [pr \in Procs |-> IdleCall]
    /\ last = Last("init", NoId, NoId, <<>>, "")

\* An update of the product that also rewrites the snapshot price of the
\* cart items of the product.
CallUpdateProduct_Reprices(p, price) ==
    /\ now < StartTime + MaxCalls
    /\ now' = now + 1
    /\ products' = IF p \in DOMAIN products
                   THEN [products EXCEPT ![p] = price] ELSE products
    /\ items' = [i \in DOMAIN items |->
                    IF items[i].product_id = p
                    THEN [items[i] EXCEPT !.unit_price = price]
                    ELSE items[i]]
    /\ UNCHANGED <<carts, nextCartId, nextItemId, calls>>
    /\ last' = LastCall("update_product", [product_id |-> p, price |-> price],
                        NoId, IF p \in DOMAIN products THEN "" ELSE "404")

\* PUT /products/{product_id} with a price: 404 for an unknown product,
\* otherwise the price of the product row is set.
CallUpdateProduct(p, price) ==
    /\ now < StartTime + MaxCalls
    /\ now' = now + 1
    /\ products' = IF p \in DOMAIN products
                   THEN [products EXCEPT ![p] = price] ELSE products
    /\ UNCHANGED <<carts, items, nextCartId, nextItemId, calls>>
    /\ last' = LastCall("update_product", [product_id |-> p, price |-> price],
                        NoId, IF p \in DOMAIN products THEN "" ELSE "404")

NextPrices ==
    \/ \E p \in ProductIds \cup {UnknownProduct}, price \in NewPrices :
          CallUpdateProduct(p, price)
    \/ \E c \in DOMAIN carts, p \in ProductIds, q \in QtyChoices :
          CallAddItem(c, p, q)
    \/ \E c \in DOMAIN carts, i \in DOMAIN items, q \in UpdateQtys :
          CallUpdateItemQuantity(c, i, q)
    \/ \E c \in DOMAIN carts, i \in DOMAIN items : CallRemoveItem(c, i)
    \/ \E c \in DOMAIN carts : CallClearCart(c)
    \/ CallMergeCarts(2, 1)
    \/ CallResolveCartConflicts(1, 2)
    \/ \E c \in DOMAIN carts : CallResolveAndValidateCart(c)
    \/ \E c \in DOMAIN carts : CallOptimizeCart(c)

\* Cart and catalog operations on items whose snapshot price may differ
\* from the catalog.
SpecPrices == InitPrices /\ [][NextPrices]_vars

\* ------------------------------------------------------- SessionMiddleware
\* A string is modelled as the sequence of the pieces the character "."
\* separates it into: "a.b" is <<"a", "b">>, "a." is <<"a", "">>, "a" is
\* <<"a">> and the empty string is <<"">>.  None is the empty sequence.
None == <<>>

\* The ids uuid4() may return next; "s1" and "s2" below are the session ids
\* the server has issued so far.
Uuids == {"u1", "u2"}

\* The pieces a request can put in its cookie: the issued ids and their
\* signatures, which a client has seen, text of its own ("0xE9" stands for a
\* text with the Latin-1 character of that code), and nothing.
CookiePieces == {"", "s1", "s2", "x", "0xE9", "hmac-s1", "hmac-s2"}

\* The length of the longest cookie a request carries, in pieces.
MaxPieces == 3

\* The request's cookie pyshop_cart_session: None, or any string.
RequestCookies ==
    UNION {[1..n -> CookiePieces] : n \in 0..MaxPieces}

\* A path as the sequence of its characters.
CartPrefix == <<"/", "c", "a", "r", "t">>

RequestPaths ==
    {<<"/">>, <<"/", "c", "a", "r">>, CartPrefix, CartPrefix \o <<"s">>,
     CartPrefix \o <<"/", "i">>, <<"/", "a", "/", "c", "a", "r", "t">>}

\* str.startswith.
StartsWith(s, prefix) ==
    Len(s) >= Len(prefix) /\ SubSeq(s, 1, Len(prefix)) = prefix

\* create_signature, lines 25-29: the HMAC-SHA256 hex digest of the value
\* under SECRET_KEY.  The digests of the ids the server signed are known to
\* clients; the digest of any other value is a text no client can produce.
CreateSignature(value) ==
    IF value = <<"s1">> THEN "hmac-s1"
    ELSE IF value = <<"s2">> THEN "hmac-s2"
    ELSE IF value = <<"u1">> THEN "hmac-u1"
    ELSE IF value = <<"u2">> THEN "hmac-u2"
    ELSE "hmac-unissued"

\* Whether a text has ASCII characters only.
IsAscii(piece) == piece # "0xE9"

\* verify_signature, lines 31-34.  hmac.compare_digest raises TypeError when
\* given a str with a character outside ASCII.
VerifySignature(value, signature) ==
    IF ~IsAscii(signature) THEN [ret |-> FALSE, err |-> "TypeError"]
    ELSE [ret |-> CreateSignature(value) = signature, err |-> ""]

\* get_cookie, lines 123-146, of the session cookie (sign=True,
\* encrypt=False): the value part of the cookie when its signature is valid,
\* else None; rsplit(".", 1) of a cookie without "." raises the ValueError
\* that is caught.  err: an exception that is not caught.
GetCookie(cookie) ==
    IF cookie = None \/ cookie = <<"">> THEN [ret |-> None, err |-> ""]
    ELSE IF Len(cookie) < 2 THEN [ret |-> None, err |-> ""]
    ELSE LET value_part == SubSeq(cookie, 1, Len(cookie) - 1)
             signature_part == cookie[Len(cookie)]
             v == VerifySignature(value_part, signature_part)
         IN IF v.err # "" THEN [ret |-> None, err |-> v.err]
            ELSE IF ~v.ret THEN [ret |-> None, err |-> ""]
            ELSE [ret |-> value_part, err |-> ""]

\* set_cookie, lines 89-121: the cookie text put on the response.
SetCookie(value) == Append(value, CreateSignature(value))

\* _should_set_cookie that does not look at the path.
ShouldSetCookie_AnyPath(path, cookie, session_id) ==
    GetCookie(cookie).ret # session_id

\* _should_set_cookie, lines 60-81.
ShouldSetCookie(path, cookie, session_id) ==
    IF ~StartsWith(path, CartPrefix) THEN FALSE
    ELSE IF GetCookie(cookie).ret = session_id THEN FALSE
    ELSE TRUE

\* dispatch, lines 37-58, when uuid4() would return fresh: the session id put
\* in request.state and the cookie set on the response (None: not set).  An
\* exception leaves dispatch before request.state is written.
Dispatch(path, cookie, fresh) ==
    LET got == GetCookie(cookie)
        session_id == IF got.ret = None \/ got.ret = <<"">>
                      THEN <<fresh>> ELSE got.ret
    IN IF got.err # ""
       THEN [session_id |-> None, set_cookie |-> None, err |-> got.err]
       ELSE [session_id |-> session_id,
             set_cookie |-> IF ShouldSetCookie(path, cookie, session_id)
                            THEN SetCookie(session_id) ELSE None,
             err |-> ""]

\* A request passes through the middleware.
HandleRequest(path, cookie, fresh) ==
    LET r == Dispatch(path, cookie, fresh) IN
    /\ last' = LastCall("dispatch", [path |-> path, cookie |-> cookie],
                        [session_id |-> r.session_id,
                         set_cookie |-> r.set_cookie], r.err)
    /\ now' = now + 1
    /\ UNCHANGED <<carts, items, products, nextCartId, nextItemId, calls>>

\* The middleware keeps nothing from one request to the next, so a
\* behaviour is one request.
NextSession ==
    /\ last.op = "init"
    /\ \E path \in RequestPaths, cookie \in RequestCookies, fresh \in Uuids :
          HandleRequest(path, cookie, fresh)

\* Requests with any path and cookie through SessionMiddleware.
SpecSession == Init /\ [][NextSession]_vars

\* ------------------------------------------------------ routes of /cart
\* POST /cart/resolve-conflicts, lines 296-335, for a logged-in user uid with
\* session token sid (NoId: none): get_current_cart, then the target cart is
\* looked up and resolve_cart_conflicts(user_cart = target, session_cart =
\* current cart) runs.  ret is the HTTP status.  What get_current_cart
\* committed stays when the route answers 404 or 403.
PostResolveConflicts(uid, sid, target) ==
    LET r0 == GetCurrentCart(DB, uid, sid, now)
        found == GetCartById(r0.db, target)
        r == ResolveCartConflicts(r0.db, target, r0.ret, now)
        args == [user_id |-> uid, session_id |-> sid,
                 target_cart_id |-> target]
    IN
    /\ r0.err = ""
    /\ IF found = NoId
       THEN /\ Served(r0.db)
            /\ last' = LastCall("post_resolve_conflicts", args, 404, "")
       ELSE IF r0.db.carts[target].user_id # uid
       THEN /\ Served(r0.db)
            /\ last' = LastCall("post_resolve_conflicts", args, 403, "")
       ELSE /\ Served(r.db)
            /\ last' = [LastCall("post_resolve_conflicts", args, 200, "")
                          EXCEPT !.messages = r.messages]

\* The "id" of an entry of PUT /cart/bulk: the id of an item (1 and 2 are
\* in the user's cart, 3 in the guest's), a text that is no UUID, or a JSON
\* value that is no text.
InvalidUuid == -1

NotText == -2

BulkIds == {1, 2, 3, InvalidUuid, NotText}

\* The lists of one or two entries; the quantity of an entry is 44
\* (BulkCartUpdate accepts 1..99).
BulkLists ==
    LET entries == [id : BulkIds, quantity : {44}] IN
    [1..1 -> entries] \cup [1..2 -> entries]

\* The loop of bulk_update_cart, lines 158-164, on cart c: UUID(id) raises
\* ValueError for a text that is no UUID and AttributeError for a value that
\* is no text; update_item_quantity commits the entry it is given.  db is
\* what has been committed when the loop ends.
RECURSIVE BulkUpdateLoop(_, _, _, _)
BulkUpdateLoop(db, c, entries, t) ==
    IF entries = <<>> THEN [db |-> db, err |-> ""]
    ELSE LET e == Head(entries) IN
         IF e.id = InvalidUuid THEN [db |-> db, err |-> "ValueError"]
         ELSE IF e.id = NotText THEN [db |-> db, err |-> "AttributeError"]
         ELSE BulkUpdateLoop(
                  UpdateItemQuantity(db, c, e.id, e.quantity, t).db,
                  c, Tail(entries), t)

\* PUT /cart/bulk, lines 149-174, for user uid or the guest of session sid.
\* ret is the HTTP status: 400 for a ValueError, 500 for another exception.
PutCartBulk(uid, sid, entries) ==
    LET r0 == GetCurrentCart(DB, uid, sid, now)
        r == BulkUpdateLoop(r0.db, r0.ret, entries, now)
    IN
    /\ r0.err = ""
    /\ Served(r.db)
    /\ last' = LastCall("put_cart_bulk",
                        [user_id |-> uid, session_id |-> sid,
                         items |-> entries],
                        IF r.err = "" THEN 200
                        ELSE IF r.err = "ValueError" THEN 400 ELSE 500,
                        r.err)

NextRoutes ==
    \/ \E uid \in Users, sid \in Sessions \cup {NoId}, target \in CartIds :
          PostResolveConflicts(uid, sid, target)
    \/ \E uid \in Users, entries \in BulkLists :
          PutCartBulk(uid, NoId, entries)
    \/ \E sid \in Sessions, entries \in BulkLists :
          PutCartBulk(NoId, sid, entries)

\* Requests to the routes of /cart, on the carts of a user and of a guest.
SpecRoutes == InitPrices /\ [][NextRoutes]_vars

\* ----------------------------------------- a merge, then the abandoned sweep
\* User 1's cart (cart 1) and a guest's cart (cart 2) at hour SweepTime, with
\* up to MaxItems items; times are in hours as in the sweep above.
InitMergeSweep ==
    /\ \E t \in {0, SweepTime - 1} :
          carts = <<[user_id |-> 1, session_id |-> NoId, status |-> ACTIVE,
                     updated_at |-> t, expires_at |-> NoTime],
                    SweepCart(1, ACTIVE, t)>>
    /\ \E S \in SUBSET (1..4) :
          /\ Cardinality(S) <= MaxItems
          /\ items \in {f \in [S -> UNION {PriceRows(i) : i \in 1..4}] :
                            \A i \in S : f[i] \in PriceRows(i)}
    /\ products = Catalog
    /\ nextCartId = 3
    /\ nextItemId = 5
    /\ now = SweepTime
    /\ calls = [pr \in Procs |-> IdleCall]
    /\ last = Last("init", NoId, NoId, <<>>, "")

\* The tables after a request, the next one coming an hour later.
ServedInHour(db) ==
    /\ now' = now + 1
    /\ carts' = db.carts
    /\ items' = db.items
    /\ UNCHANGED <<products, nextCartId, nextItemId, calls>>

\* The guest logs in: merge_carts moves the guest cart into the user cart.
MergeAtLogin ==
    LET r == MergeCarts(DB, 2, 1, now) IN
    /\ now = SweepTime
    /\ ServedInHour(r.db)
    /\ last' = LastCall("merge_carts",
                        [source_cart_id |-> 2, target_cart_id |-> 1],
                        r.ret, r.err)

\* The same by resolve_cart_conflicts.
ResolveAtLogin ==
    LET r == ResolveCartConflicts(DB, 1, 2, now) IN
    /\ now = SweepTime
    /\ ServedInHour(r.db)
    /\ last' = LastCall("resolve_cart_conflicts",
                        [user_cart |-> 1, session_cart |-> 2], r.ret, "")

\* POST /cart/admin/cleanup-abandoned, in a request of its own after the
\* merge.
CleanupAfterMerge(days_old, z) ==
    LET r == CleanupAbandonedCarts(DB, days_old, now, z) IN
    /\ now = SweepTime + 1
    /\ ServedInHour(r.db)
    /\ last' = LastCall("cleanup_abandoned_carts",
                        [days_old |-> days_old, zone |-> z], r.ret, "")

NextMergeSweep ==
    \/ MergeAtLogin
    \/ ResolveAtLogin
    \/ \E days_old \in DaysOld, z \in TimeZones :
          CleanupAfterMerge(days_old, z)

\* A merge and the sweep of abandoned carts that follows it.
SpecMergeSweep == InitMergeSweep /\ [][NextMergeSweep]_vars

\* ------------------------------------------------------------------- claims
\* C1: in every reachable state, also when get_or_create_cart calls for the
\* same identity interleave, at most one cart is ACTIVE per user_id and at
\* most one per session_id.
C1_OneActiveCartPerIdentity ==
    /\ \A u \in Users : Cardinality(ActiveCartsOf(carts, u, NoId)) <= 1
    /\ \A s \in Sessions : Cardinality(ActiveCartsOf(carts, NoId, s)) <= 1

\* C2: when resolve_cart_conflicts merges two non-empty carts, every product
\* present in both ends in the user cart with quantity
\* min(99, user_quantity + guest_quantity), and exactly one quantity message is
\* emitted for it: 'capped' when the sum exceeds 99, 'merged' otherwise.
C2_ConflictQuantityCapped ==
    [][(/\ last'.op = "resolve_cart_conflicts"
        /\ ItemsOf(items, last'.a) # {}
        /\ ItemsOf(items, last'.b) # {})
       => \A si \in ItemsOf(items, last'.a), ui \in ItemsOf(items, last'.b) :
            items[si].product_id = items[ui].product_id =>
              LET sum == items[ui].quantity + items[si].quantity
                  about == {k \in 1..Len(last'.messages) :
                              /\ last'.messages[k].product
                                    = items[si].product_id
                              /\ last'.messages[k].kind
                                    \in {"capped", "merged"}}
              IN /\ items'[ui].quantity = IF sum > 99 THEN 99 ELSE sum
                 /\ Cardinality(about) = 1
                 /\ \A k \in about :
                      last'.messages[k].kind
                         = IF sum > 99 THEN "capped" ELSE "merged"]_vars

\* C2 witness: a guest cart was merged into another cart and a product of
\* both was capped at 99.
C2_Witness ==
    /\ last.op = "resolve_cart_conflicts"
    /\ last.a # last.b
    /\ \E k \in 1..Len(last.messages), ui \in ItemsOf(items, last.b) :
          /\ last.messages[k].kind = "capped"
          /\ items[ui].product_id = last.messages[k].product
          /\ items[ui].quantity = 99

\* C3: when get_current_cart merges the session cart into the user's cart,
\* every product of both carts ends in the user cart with quantity
\* min(99, user_quantity + guest_quantity).
C3_LoginMergeCapped ==
    [][(last'.op = "get_current_cart" /\ last'.a # NoId)
       => \A si \in ItemsOf(items, last'.a), ui \in ItemsOf(items, last'.b) :
            items[si].product_id = items[ui].product_id =>
              LET sum == items[ui].quantity + items[si].quantity
              IN items'[ui].quantity = IF sum > 99 THEN 99 ELSE sum]_vars

\* C4: in a merge conflict, if the guest item's updated_at before the merge is
\* strictly later than the user item's and the unit prices differ by more than
\* 0.01, the user item takes the guest item's unit_price and a price message
\* is emitted; if the guest item is not strictly later, the price is kept.
C4_FresherPriceWins ==
    [][(/\ last'.op = "resolve_cart_conflicts"
        /\ ItemsOf(items, last'.a) # {}
        /\ ItemsOf(items, last'.b) # {})
       => \A si \in ItemsOf(items, last'.a), ui \in ItemsOf(items, last'.b) :
            items[si].product_id = items[ui].product_id =>
              LET newer == items[si].updated_at > items[ui].updated_at
                  differ == Abs(items[ui].unit_price - items[si].unit_price)
                               > 10
              IN /\ (newer /\ differ) =>
                      /\ items'[ui].unit_price = items[si].unit_price
                      /\ \E k \in 1..Len(last'.messages) :
                            last'.messages[k]
                               = Msg("price", items[si].product_id)
                 /\ ~newer =>
                      items'[ui].unit_price = items[ui].unit_price]_vars

\* C5: in a merge conflict, when the two unit prices differ by at most 0.01
\* the user item's unit_price is unchanged and no price message is emitted,
\* whatever the timestamps.
C5_NoAdoptionWithinOneCent ==
    [][(/\ last'.op = "resolve_cart_conflicts"
        /\ ItemsOf(items, last'.a) # {}
        /\ ItemsOf(items, last'.b) # {})
       => \A si \in ItemsOf(items, last'.a), ui \in ItemsOf(items, last'.b) :
            (/\ items[si].product_id = items[ui].product_id
             /\ Abs(items[ui].unit_price - items[si].unit_price) <= 10) =>
              /\ items'[ui].unit_price = items[ui].unit_price
              /\ \A k \in 1..Len(last'.messages) :
                    last'.messages[k] # Msg("price", items[si].product_id)]_vars

\* C6: after every merge of a non-empty guest cart (merge_carts, or any branch
\* of resolve_cart_conflicts) the guest cart still exists and is ABANDONED.
C6_SourceAbandoned ==
    [][(/\ last'.op \in {"merge_carts", "resolve_cart_conflicts",
                         "get_current_cart"}
        /\ last'.a # NoId
        /\ ItemsOf(items, last'.a) # {})
       => /\ last'.a \in DOMAIN carts'
          /\ carts'[last'.a].status = ABANDONED]_vars

\* C7 as stated: during a merge every guest item whose product is not in the
\* user cart moves to the user cart with quantity and unit_price unchanged,
\* and an 'Added product' message is emitted for it.
C7_TransferWithMessage ==
    [][(/\ last'.op \in {"merge_carts", "resolve_cart_conflicts",
                         "get_current_cart"}
        /\ last'.a # NoId)
       => \A si \in ItemsOf(items, last'.a) :
            (\A ui \in ItemsOf(items, last'.b) :
                items[ui].product_id # items[si].product_id) =>
              /\ items'[si].cart_id = last'.b
              /\ items'[si].quantity = items[si].quantity
              /\ items'[si].unit_price = items[si].unit_price
              /\ \E k \in 1..Len(last'.messages) :
                    last'.messages[k]
                       = Msg("added", items[si].product_id)]_vars

\* C7 amended: during a merge every guest item whose product is not in the
\* user cart moves to the user cart with quantity and unit_price unchanged;
\* an 'Added product' message is emitted for it when the merge is
\* resolve_cart_conflicts on a non-empty user cart.
C7_TransferUnchanged ==
    [][(/\ last'.op \in {"merge_carts", "resolve_cart_conflicts",
                         "get_current_cart"}
        /\ last'.a # NoId)
       => \A si \in ItemsOf(items, last'.a) :
            (\A ui \in ItemsOf(items, last'.b) :
                items[ui].product_id # items[si].product_id) =>
              /\ items'[si].cart_id = last'.b
              /\ items'[si].quantity = items[si].quantity
              /\ items'[si].unit_price = items[si].unit_price
              /\ (/\ last'.op = "resolve_cart_conflicts"
                  /\ ItemsOf(items, last'.b) # {}) =>
                    \E k \in 1..Len(last'.messages) :
                       last'.messages[k]
                          = Msg("added", items[si].product_id)]_vars

\* C7 witness: resolve_cart_conflicts moved a guest item of a product the user
\* cart did not hold into the user cart and reported it as added.
C7_Witness ==
    /\ last.op = "resolve_cart_conflicts"
    /\ last.a # last.b
    /\ \E k \in 1..Len(last.messages), i \in ItemsOf(items, last.b) :
          last.messages[k] = Msg("added", items[i].product_id)

\* C8 as stated: with both carts non-empty, resolve_cart_conflicts returns
\* exactly one message per guest item, the i-th about the i-th guest item.
C8_OneMessagePerItem ==
    [][(/\ last'.op = "resolve_cart_conflicts"
        /\ ItemsOf(items, last'.a) # {}
        /\ ItemsOf(items, last'.b) # {})
       => LET guest == CartItems(items, last'.a)
          IN /\ Len(last'.messages) = Len(guest)
             /\ \A k \in 1..Len(guest) :
                   last'.messages[k].product
                      = items[guest[k]].product_id]_vars

\* C8 amended: with both carts non-empty, resolve_cart_conflicts returns for
\* each guest item, in iteration order, one quantity or 'Added' message, and
\* a price message, if any, comes right after the quantity message of the
\* same product.
C8_MessagesInOrder ==
    [][(/\ last'.op = "resolve_cart_conflicts"
        /\ ItemsOf(items, last'.a) # {}
        /\ ItemsOf(items, last'.b) # {})
       => LET guest == CartItems(items, last'.a)
              msgs == last'.messages
              NotPrice(m) == m.kind # "price"
              main == SelectSeq(msgs, NotPrice)
          IN /\ Len(main) = Len(guest)
             /\ \A k \in 1..Len(guest) :
                   /\ main[k].product = items[guest[k]].product_id
                   /\ main[k].kind \in {"capped", "merged", "added"}
             /\ \A k \in 1..Len(msgs) :
                   msgs[k].kind = "price" =>
                     /\ k > 1
                     /\ msgs[k - 1].kind \in {"capped", "merged"}
                     /\ msgs[k - 1].product = msgs[k].product]_vars

\* C8 witness: a merge of two guest items returned three messages, the price
\* message of the first item before the 'Added' message of the second.
C8_Witness ==
    /\ last.op = "resolve_cart_conflicts"
    /\ last.a # last.b
    /\ Len(last.messages) = 3
    /\ last.messages[2].kind = "price"
    /\ last.messages[3].kind = "added"

\* C9 as stated: merging an empty guest cart returns zero messages and leaves
\* the items unchanged.
C9_EmptyGuestNoMessage ==
    [][(/\ last'.op = "resolve_cart_conflicts"
        /\ ItemsOf(items, last'.a) = {})
       => /\ last'.messages = <<>>
          /\ items' = items]_vars

\* C9 amended: merging an empty guest cart returns exactly one message, the
\* notice that the session cart is empty, and changes no item and no cart.
C9_EmptyGuestNoOp ==
    [][(/\ last'.op = "resolve_cart_conflicts"
        /\ ItemsOf(items, last'.a) = {})
       => /\ last'.messages = <<Msg("session_empty", NoId)>>
          /\ items' = items
          /\ carts' = carts]_vars

\* C9 witness: an empty guest cart was merged into a user cart holding items.
C9_Witness ==
    /\ last.op = "resolve_cart_conflicts"
    /\ last.a # last.b
    /\ last.messages = <<Msg("session_empty", NoId)>>
    /\ ItemsOf(items, last.a) = {}
    /\ ItemsOf(items, last.b) # {}
    /\ carts[last.a].status = ACTIVE

\* C10: merging a non-empty guest cart into an empty user cart leaves the user
\* cart with exactly the guest cart's items (products, quantities and prices
\* unchanged), the guest cart with none, and returns exactly one message.
C10_BulkAdopt ==
    [][(/\ last'.op = "resolve_cart_conflicts"
        /\ ItemsOf(items, last'.a) # {}
        /\ ItemsOf(items, last'.b) = {})
       => /\ ItemsOf(items', last'.b) = ItemsOf(items, last'.a)
          /\ ItemsOf(items', last'.a) = {}
          /\ \A i \in ItemsOf(items, last'.a) :
                /\ items'[i].product_id = items[i].product_id
                /\ items'[i].quantity = items[i].quantity
                /\ items'[i].unit_price = items[i].unit_price
          /\ Len(last'.messages) = 1]_vars

\* C10 witness: a guest cart of two items was adopted by an empty user cart.
C10_Witness ==
    /\ last.op = "resolve_cart_conflicts"
    /\ last.messages = <<Msg("adopt_all", NoId)>>
    /\ ItemsOf(items, last.a) = {}
    /\ Cardinality(ItemsOf(items, last.b)) = 2

\* C11: merge_carts called with a source or target cart id that names no cart
\* fails with the not-found ValueError and changes no item and no cart.
C11_MergeMissingCartNoChange ==
    [][(/\ last'.op = "merge_carts"
        /\ \/ last'.args.source_cart_id \notin DOMAIN carts
           \/ last'.args.target_cart_id \notin DOMAIN carts)
       => /\ last'.err = "ValueError"
          /\ items' = items
          /\ carts' = carts]_vars

\* C11 witness: merge_carts failed for a source cart holding items and a
\* target id that names no cart.
C11_Witness ==
    /\ last.op = "merge_carts"
    /\ last.err = "ValueError"
    /\ last.args.source_cart_id \in DOMAIN carts
    /\ ItemsOf(items, last.args.source_cart_id) # {}
    /\ carts[last.args.source_cart_id].status = ACTIVE
    /\ last.args.target_cart_id \notin DOMAIN carts

\* C12: after get_or_create_cart returned a cart for an identity, the next
\* get_or_create_cart call for the same identity returns the same cart id and
\* creates no cart; the two calls together create at most one cart.
C12_GetOrCreateIdempotent ==
    [][(last'.op = "get_or_create_cart" /\ last'.err = "")
       => LET again == GetOrCreateCart(
                           [carts |-> carts', items |-> items',
                            nextCartId |-> nextCartId',
                            nextItemId |-> nextItemId'],
                           last'.args.user_id, last'.args.session_id, now')
          IN /\ again.err = ""
             /\ again.ret = last'.ret
             /\ DOMAIN again.db.carts = DOMAIN carts'
             /\ Cardinality(DOMAIN carts' \ DOMAIN carts) <= 1
             /\ (/\ last.op = "get_or_create_cart"
                 /\ last.err = ""
                 /\ last.args = last'.args)
                => /\ last'.ret = last.ret
                   /\ DOMAIN carts' = DOMAIN carts]_vars

\* C12 witness: get_or_create_cart created a cart for a guest whose earlier
\* cart is ABANDONED.
C12_Witness ==
    /\ last.op = "get_or_create_cart"
    /\ last.err = ""
    /\ last.args.session_id # NoId
    /\ last.ret \in DOMAIN carts
    /\ \E c \in DOMAIN carts :
          /\ c # last.ret
          /\ carts[c].session_id = last.args.session_id
          /\ carts[c].status = ABANDONED

\* C13: no cart ever holds two items of the same product, whatever service
\* call was made (add_item, update_item_quantity, remove_item, clear_cart,
\* merge_carts, resolve_cart_conflicts), and add_item for a product already in
\* the cart creates no row and adds the requested quantity to the item's.
C13_OneItemPerProduct ==
    /\ [](\A i \in DOMAIN items, j \in DOMAIN items :
            (i # j /\ items[i].cart_id = items[j].cart_id)
               => items[i].product_id # items[j].product_id)
    /\ [][(last'.op = "add_item" /\ last'.err = "")
          => \A e \in ItemsOf(items, last'.args.cart_id) :
               items[e].product_id = last'.args.product_id =>
                 /\ DOMAIN items' = DOMAIN items
                 /\ last'.ret = e
                 /\ items'[e].quantity
                       = items[e].quantity + last'.args.quantity]_vars

\* C13 witness: add_item was called for a product the cart already held, and
\* the item now has more than the requested quantity.
C13_Witness ==
    /\ last.op = "add_item"
    /\ last.err = ""
    /\ last.ret \in DOMAIN items
    /\ last.ret < nextItemId - 1
    /\ items[last.ret].quantity > last.args.quantity

\* C14: when an add_item request that found no row for its cart and product
\* commits after another request inserted that row, it is retried as an
\* update: the request succeeds and the row's quantity grows by the requested
\* quantity.
C14_DuplicateInsertRetried ==
    [][\A pr \in Procs :
         (/\ calls[pr].pc = "selected"
          /\ calls'[pr].pc = "idle"
          /\ calls[pr].found = NoId)
         => \A e \in DOMAIN items :
              (/\ items[e].cart_id = calls[pr].cart_id
               /\ items[e].product_id = calls[pr].product_id)
              => /\ AddItemStatus(last'.err) = 200
                 /\ items'[e].quantity
                       = items[e].quantity + calls[pr].quantity]_vars

\* C15: add_item for a product id with no row in the product table fails with
\* the not-found ValueError, which POST /cart/items answers with 404, and
\* creates no item and changes no item and no cart.
C15_UnknownProductRejected ==
    [][(/\ last'.op = "add_item"
        /\ last'.args.product_id \notin DOMAIN products)
       => /\ last'.err = "ValueError"
          /\ AddItemStatus(last'.err) = 404
          /\ items' = items
          /\ carts' = carts
          /\ nextItemId' = nextItemId]_vars

\* C15 witness: add_item was refused for an unknown product on a cart that
\* holds items.
C15_Witness ==
    /\ last.op = "add_item"
    /\ last.args.product_id = UnknownProduct
    /\ last.err = "ValueError"
    /\ ItemsOf(items, last.args.cart_id) # {}

\* C16: update_item_quantity returns the updated item for an item of the cart
\* and a quantity above 0; for an item of the cart and a quantity of 0 or less
\* it deletes the item and returns a result different from the one it returns
\* for an item id that is not in the cart.
C16_RemovedDistinctFromNotFound ==
    [][last'.op = "update_item_quantity"
       => LET c == last'.args.cart_id
              i == last'.args.item_id
              q == last'.args.quantity
              existed == i \in ItemsOf(items, c)
              notFound == UpdateItemQuantity(DB, c, NoId, q, now).ret
          IN /\ (existed /\ q > 0) =>
                   /\ last'.ret = i
                   /\ items'[i].quantity = q
             /\ (existed /\ q <= 0) =>
                   /\ i \notin DOMAIN items'
                   /\ last'.ret # notFound
             /\ ~existed =>
                   /\ items' = items
                   /\ last'.ret = notFound]_vars

\* C17: every persisted cart item has quantity 1 or more, whatever service
\* call was made (add, update, remove, clear, merge, resolve, validate,
\* optimize) with a request quantity of at most 99.
C17_QuantityAtLeastOne == \A i \in DOMAIN items : items[i].quantity >= 1

\* C17 witness: update_item_quantity was asked for quantity 0 on an item of the
\* cart, and the item is gone while another item of the cart remains.
C17_Witness ==
    /\ last.op = "update_item_quantity"
    /\ last.args.quantity = 0
    /\ last.args.item_id \in 1..4
    /\ last.args.cart_id = SlotCart(last.args.item_id)
    /\ last.args.item_id \notin DOMAIN items
    /\ ItemsOf(items, last.args.cart_id) # {}

\* C18: get_current_cart for an unauthenticated request without a session
\* token fails with the identity ValueError and creates no cart; with a session
\* token it returns the ACTIVE cart of exactly that token, which is the one
\* that existed if there was one and a cart created by the call otherwise.
C18_GuestCartBySessionToken ==
    [][(last'.op = "get_current_cart" /\ last'.args.user_id = NoId)
       => LET sid == last'.args.session_id
              c == last'.ret
              had == {x \in DOMAIN carts : /\ carts[x].session_id = sid
                                           /\ carts[x].status = ACTIVE}
          IN IF sid = NoId
             THEN /\ last'.err = "ValueError"
                  /\ c = NoId
                  /\ carts' = carts
             ELSE /\ last'.err = ""
                  /\ c \in DOMAIN carts'
                  /\ carts'[c].session_id = sid
                  /\ carts'[c].user_id = NoId
                  /\ carts'[c].status = ACTIVE
                  /\ had # {} => (c \in had /\ DOMAIN carts' = DOMAIN carts)
                  /\ had = {} => /\ c \notin DOMAIN carts
                                 /\ DOMAIN carts' = DOMAIN carts \cup {c}
                  /\ items' = items]_vars

\* C18 witness: get_current_cart created a cart for a guest whose earlier cart
\* is ABANDONED.
C18_Witness ==
    /\ last.op = "get_current_cart"
    /\ last.args.user_id = NoId
    /\ last.args.session_id # NoId
    /\ last.err = ""
    /\ last.ret \in DOMAIN carts
    /\ \E c \in DOMAIN carts :
          /\ c # last.ret
          /\ carts[c].session_id = last.args.session_id
          /\ carts[c].status = ABANDONED

\* C19: a cart created for a session token expires 7 days after its creation
\* and a cart created for a user has no expiry; no user cart is ever EXPIRED,
\* and cleanup_expired_carts changes no user cart.
C19_UserCartsNeverExpire ==
    /\ [](\A c \in DOMAIN carts :
            carts[c].user_id # NoId =>
               /\ carts[c].expires_at = NoTime
               /\ carts[c].status # EXPIRED)
    /\ [][/\ \A c \in DOMAIN carts' \ DOMAIN carts :
               carts'[c].expires_at
                  = IF carts'[c].session_id # NoId THEN now + 7 ELSE NoTime
          /\ last'.op = "cleanup_expired_carts" =>
               \A c \in DOMAIN carts :
                  carts[c].user_id # NoId => carts'[c] = carts[c]]_vars

\* C19 witness: cleanup_expired_carts expired a guest cart next to a user cart
\* created on the same day, which is still ACTIVE.
C19_Witness ==
    /\ last.op = "cleanup_expired_carts"
    /\ last.ret >= 1
    /\ \E u \in DOMAIN carts, g \in DOMAIN carts :
          /\ carts[u].user_id # NoId
          /\ carts[u].status = ACTIVE
          /\ carts[g].session_id # NoId
          /\ carts[g].status = EXPIRED

\* C20: get_current_cart for an authenticated user re-raises a failure to
\* fetch or create the user's cart and returns no cart in its place; when the
\* user's cart is available it returns one of the user's carts, whether the
\* merge step failed or not.
C20_UserCartErrorReraised ==
    [][(last'.op = "get_current_cart" /\ last'.args.user_id # NoId)
       => LET uid == last'.args.user_id
              mine == {c \in DOMAIN carts : /\ carts[c].user_id = uid
                                            /\ carts[c].status = ACTIVE}
          IN IF Cardinality(mine) > 1
             THEN /\ last'.err # ""
                  /\ last'.ret = NoId
             ELSE /\ last'.err = ""
                  /\ last'.ret \in DOMAIN carts'
                  /\ carts'[last'.ret].user_id = uid]_vars

\* C21: resolve_and_validate_cart stores quantity 99 for every item of the
\* cart whose product exists and whose quantity was above 99 and adds a
\* warning for it; afterwards no item of the cart with an existing product
\* has a quantity above 99; and the call is valid whenever every product
\* exists, every quantity is at least 1, the cart has at most 100 items and
\* has not expired, clamped items or not.
C21_ValidateClampsQuantity ==
    [][(last'.op = "resolve_and_validate_cart"
            /\ last'.args.cart_id \in DOMAIN carts)
       => LET c == last'.args.cart_id
              mine == ItemsOf(items, c)
          IN /\ \A i \in mine :
                   (items[i].quantity > 99
                        /\ items[i].product_id \in DOMAIN products)
                   => /\ i \in DOMAIN items'
                      /\ items'[i].quantity = 99
                      /\ \E k \in DOMAIN last'.ret.warnings :
                            last'.ret.warnings[k]
                                = Msg("exceeds_maximum", items[i].product_id)
             /\ \A i \in ItemsOf(items', c) :
                   items'[i].product_id \in DOMAIN products
                   => items'[i].quantity <= 99
             /\ ((\A i \in mine : /\ items[i].product_id \in DOMAIN products
                                  /\ items[i].quantity >= 1)
                    /\ Cardinality(mine) <= 100
                    /\ ~(carts[c].expires_at # NoTime
                            /\ carts[c].expires_at < now))
                => last'.ret.is_valid]_vars

\* A valid validation that warned about product 1 and left 99 of it.
C21_Witness ==
    /\ last.op = "resolve_and_validate_cart"
    /\ last.ret.is_valid
    /\ \E k \in DOMAIN last.ret.warnings :
          last.ret.warnings[k] = Msg("exceeds_maximum", 1)
    /\ \E i \in ItemsOf(items, last.args.cart_id) :
          /\ items[i].product_id = 1
          /\ items[i].quantity = 99
          /\ items[i].updated_at = now - 1

\* C22: resolve_and_validate_cart sets the unit_price of every item whose
\* product exists and whose unit_price differs from the product's price by
\* more than 0.01 to the product's price and adds a price warning for it; an
\* item whose unit_price differs by at most 0.01 keeps it and gets no price
\* warning.
C22_ValidateSyncsPrice ==
    [][(last'.op = "resolve_and_validate_cart"
            /\ last'.args.cart_id \in DOMAIN carts)
       => \A i \in ItemsOf(items, last'.args.cart_id) :
             items[i].product_id \in DOMAIN products
             => LET live == products[items[i].product_id]
                    warned == \E k \in DOMAIN last'.ret.warnings :
                                last'.ret.warnings[k]
                                  = Msg("price_changed", items[i].product_id)
                IN /\ i \in DOMAIN items'
                   /\ IF Abs(items[i].unit_price - live) > 10
                      THEN warned /\ items'[i].unit_price = live
                      ELSE ~warned
                            /\ items'[i].unit_price = items[i].unit_price]_vars

\* C23: resolve_and_validate_cart deletes no cart item; for an item whose
\* product no longer exists it returns a 'no longer available' error, so
\* is_valid is false, and the item stays in the cart with its quantity and
\* unit_price unchanged.
C23_ValidateKeepsUnavailableItems ==
    [][(last'.op = "resolve_and_validate_cart"
            /\ last'.args.cart_id \in DOMAIN carts)
       => /\ DOMAIN items' = DOMAIN items
          /\ \A i \in ItemsOf(items, last'.args.cart_id) :
                items[i].product_id \notin DOMAIN products
                => /\ \E k \in DOMAIN last'.ret.errors :
                         last'.ret.errors[k]
                             = Msg("unavailable", items[i].product_id)
                   /\ ~last'.ret.is_valid
                   /\ items'[i].cart_id = items[i].cart_id
                   /\ items'[i].quantity = items[i].quantity
                   /\ items'[i].unit_price = items[i].unit_price]_vars

\* A validation that reported product 2 as unavailable and left 150 of it
\* at the price 1.010 in the cart.
C23_Witness ==
    /\ last.op = "resolve_and_validate_cart"
    /\ ~last.ret.is_valid
    /\ \E k \in DOMAIN last.ret.errors :
          last.ret.errors[k] = Msg("unavailable", 2)
    /\ 2 \notin DOMAIN products
    /\ \E i \in ItemsOf(items, last.args.cart_id) :
          /\ items[i].product_id = 2
          /\ items[i].quantity = 150
          /\ items[i].unit_price = 1010

\* C24: resolve_and_validate_cart returns is_valid = true exactly when it
\* returns no error, and it returns an error exactly when the cart has an
\* item whose product is missing, an item with a quantity below 1, more than
\* 100 items, or an expires_at in the past; a total quantity above 500 is
\* reported as a warning and is no error.
C24_ValidIffNoError ==
    [][(last'.op = "resolve_and_validate_cart"
            /\ last'.args.cart_id \in DOMAIN carts)
       => LET c == last'.args.cart_id
              mine == ItemsOf(items, c)
              total == SumQuantity(items', c, 1, nextItemId - 1)
          IN /\ last'.ret.is_valid = (last'.ret.errors = <<>>)
             /\ last'.ret.is_valid
                = ~(\/ \E i \in mine :
                          items[i].product_id \notin DOMAIN products
                    \/ \E i \in mine : items[i].quantity < 1
                    \/ Cardinality(mine) > 100
                    \/ (carts[c].expires_at # NoTime
                            /\ carts[c].expires_at < now))
             /\ (total > 500)
                = (\E k \in DOMAIN last'.ret.warnings :
                      last'.ret.warnings[k] = Msg("total_high", NoId))
             /\ \A k \in DOMAIN last'.ret.errors :
                   last'.ret.errors[k] # Msg("total_high", NoId)]_vars

\* A valid validation of a cart of 100 items that warned about the total
\* quantity.
C24_Witness ==
    /\ last.op = "resolve_and_validate_cart"
    /\ last.ret.is_valid
    /\ last.ret.warnings = <<Msg("total_high", NoId)>>
    /\ Cardinality(ItemsOf(items, last.args.cart_id)) = 100

\* C25: optimize_cart deletes the items of the cart whose product is missing
\* or whose quantity is 0 or less, sets the quantities above 99 to 99 and
\* leaves every other item as it is; it returns changed = true exactly when
\* it deleted or clamped an item; and optimize_cart called again right after
\* returns changed = false with the one message 'Cart is already optimized'
\* and changes nothing.
C25_OptimizeOnce ==
    [][(last'.op = "optimize_cart" /\ last'.args.cart_id \in DOMAIN carts)
       => LET c == last'.args.cart_id
              mine == ItemsOf(items, c)
              gone == {i \in mine :
                          \/ items[i].product_id \notin DOMAIN products
                          \/ items[i].quantity <= 0}
              high == {i \in mine \ gone : items[i].quantity > 99}
              after == [carts |-> carts', items |-> items',
                        nextCartId |-> nextCartId',
                        nextItemId |-> nextItemId']
              again == OptimizeCart(after, products', c, now')
          IN /\ DOMAIN items' = DOMAIN items \ gone
             /\ \A i \in DOMAIN items' :
                   /\ items'[i].quantity
                        = IF i \in high THEN 99 ELSE items[i].quantity
                   /\ items'[i].cart_id = items[i].cart_id
                   /\ items'[i].product_id = items[i].product_id
                   /\ items'[i].unit_price = items[i].unit_price
             /\ last'.ret.changed = (gone # {} \/ high # {})
             /\ again.ret = FALSE
             /\ again.messages = <<Msg("already_optimized", NoId)>>
             /\ again.db = after]_vars

\* An optimisation that removed the item of the missing product 2 and
\* reduced product 1 to 99.
C25_Witness ==
    /\ last.op = "optimize_cart"
    /\ last.ret.changed
    /\ last.ret.messages
         = <<Msg("removed_unavailable", 2), Msg("reduced_quantity", 1)>>
    /\ DOMAIN items = {1}
    /\ items[1].quantity = 99

\* C26: for a cart id that names no cart, resolve_and_validate_cart returns
\* is_valid = false with the error 'Cart not found', optimize_cart returns
\* (false, ['Cart not found']) and get_cart_health_report returns an error
\* object; none of them raises and none changes a cart or an item.
C26_MissingCartStructuredResult ==
    [][(last'.op \in {"resolve_and_validate_cart", "optimize_cart",
                      "get_cart_health_report"}
            /\ last'.args.cart_id \notin DOMAIN carts)
       => /\ last'.err = ""
          /\ carts' = carts
          /\ items' = items
          /\ last'.op = "resolve_and_validate_cart"
                => last'.ret = [is_valid |-> FALSE,
                                errors |-> <<Msg("not_found", NoId)>>,
                                warnings |-> <<>>]
          /\ last'.op = "optimize_cart"
                => last'.ret = [changed |-> FALSE,
                                messages |-> <<Msg("not_found", NoId)>>]
          /\ last'.op = "get_cart_health_report"
                => last'.ret = [error |-> "Cart not found"]]_vars

\* A health report asked for a cart id that names no cart.
C26_Witness ==
    /\ last.op = "get_cart_health_report"
    /\ last.args.cart_id \notin DOMAIN carts
    /\ last.ret = [error |-> "Cart not found"]
    /\ items # <<>>

\* C27: get_cart_health_report is read-only: the items of every cart, with
\* their quantities and unit prices, and the status of every cart are the
\* same after the call as before.
C27_HealthReportReadOnly ==
    [][last'.op = "get_cart_health_report"
       => /\ DOMAIN items' = DOMAIN items
          /\ \A i \in DOMAIN items :
                /\ items'[i].quantity = items[i].quantity
                /\ items'[i].unit_price = items[i].unit_price
          /\ DOMAIN carts' = DOMAIN carts
          /\ \A c \in DOMAIN carts : carts'[c].status = carts[c].status]_vars

\* C28: cleanup_expired_carts sets the status EXPIRED on exactly the carts
\* that are ACTIVE and whose expires_at is set and earlier than now, returns
\* their number, deletes no cart and no item and leaves the status of every
\* other cart unchanged.
C28_ExpirySweepExact ==
    [][last'.op = "cleanup_expired_carts"
       => LET due == {c \in DOMAIN carts :
                         /\ carts[c].status = ACTIVE
                         /\ carts[c].expires_at # NoTime
                         /\ carts[c].expires_at < now}
          IN /\ DOMAIN carts' = DOMAIN carts
             /\ \A c \in DOMAIN carts :
                   carts'[c].status
                     = IF c \in due THEN EXPIRED ELSE carts[c].status
             /\ last'.ret = Cardinality(due)
             /\ items' = items]_vars

\* A sweep that expired the guest's cart, which holds an item, next to the
\* user's ACTIVE cart.
C28_Witness ==
    /\ last.op = "cleanup_expired_carts"
    /\ last.ret = 1
    /\ \E c \in DOMAIN carts :
          /\ carts[c].status = EXPIRED
          /\ ItemsOf(items, c) # {}
    /\ \E c \in DOMAIN carts :
          carts[c].status = ACTIVE /\ carts[c].expires_at = NoTime

\* C29: cleanup_abandoned_carts(days_old) deletes exactly the carts that are
\* ABANDONED and whose updated_at is earlier than now minus days_old days,
\* with the items of those carts and no other item, and returns their
\* number; so it deletes no cart that is not ABANDONED.
C29_AbandonedSweepExact ==
    [][last'.op = "cleanup_abandoned_carts"
       => LET old == {c \in DOMAIN carts :
                         /\ carts[c].status = ABANDONED
                         /\ carts[c].updated_at
                              < now - last'.args.days_old * 24}
          IN /\ DOMAIN carts' = DOMAIN carts \ old
             /\ DOMAIN items'
                  = {i \in DOMAIN items : items[i].cart_id \notin old}
             /\ last'.ret = Cardinality(old)]_vars

\* C30: calculate_cart_summary returns the number of item rows of the cart,
\* the sum of their quantities and the sum of quantity times unit_price
\* rounded to whole cents: a whole number of cents at most half a cent from
\* the sum, and the sum itself when every price is in whole cents; an empty
\* cart gives 0, 0 and 0.
C30_SummaryTotals ==
    [][last'.op = "calculate_cart_summary"
       => LET c == last'.args.cart_id
              mine == ItemsOf(items, c)
              sum == Subtotal(items, c, 1, nextItemId - 1)
              s == last'.ret
          IN /\ s.total_items = Cardinality(mine)
             /\ s.total_quantity = SumQuantity(items, c, 1, nextItemId - 1)
             /\ s.subtotal % 10 = 0
             /\ Abs(s.subtotal - sum) <= 5
             /\ (\A i \in mine : items[i].unit_price % 10 = 0)
                => s.subtotal = sum
             /\ mine = {}
                => s = [total_items |-> 0, total_quantity |-> 0,
                        subtotal |-> 0]]_vars

\* The summary of 35 at 1.011 and 150 at 1.010: 185 pieces in two rows, the
\* sum 186.885 rounded to whole cents.
C30_Witness ==
    /\ last.op = "calculate_cart_summary"
    /\ last.ret.total_items = 2
    /\ last.ret.total_quantity = 185
    /\ last.ret.subtotal \in {186880, 186890}
    /\ Subtotal(items, last.args.cart_id, 1, nextItemId - 1) = 186885

\* C31: over any sequence of operations a cart's status changes only from
\* ACTIVE to ABANDONED (by a merge, on its source cart) or from ACTIVE to
\* EXPIRED (by the expiry sweep); a cart that is ABANDONED, EXPIRED or
\* CONVERTED keeps its status.
C31_StatusOnlyLeavesActive ==
    [][\A c \in DOMAIN carts \cap DOMAIN carts' :
          carts'[c].status # carts[c].status
          => /\ carts[c].status = ACTIVE
             /\ \/ /\ carts'[c].status = ABANDONED
                   /\ last'.op = "merge_carts"
                   /\ last'.a = c
                \/ /\ carts'[c].status = EXPIRED
                   /\ last'.op = "cleanup_expired_carts"]_vars

\* The operations that run validation's price refresh or the price adoption
\* of the conflict-resolving merge.
PriceRefreshingOps ==
    {"resolve_and_validate_cart", "get_cart_health_report",
     "resolve_cart_conflicts"}

\* C32: an item's unit_price is a snapshot.  A row created by add_item gets
\* the product's current price; no operation other than validation and the
\* conflict-resolving merge changes the unit_price of an item: not add_item
\* on a product already in the cart, not update_item_quantity, not a change
\* of the product's catalog price.
C32_UnitPriceSnapshot ==
    [][/\ last'.op \notin PriceRefreshingOps
          => \A i \in DOMAIN items \cap DOMAIN items' :
                items'[i].unit_price = items[i].unit_price
       /\ (last'.op = "add_item" /\ last'.err = ""
             /\ last'.ret \notin DOMAIN items)
          => items'[last'.ret].unit_price
               = products[last'.args.product_id]]_vars

\* A product repriced while an item of it whose snapshot was already
\* different from the catalog price is in a cart.
C32_Witness ==
    /\ last.op = "update_product"
    /\ last.err = ""
    /\ \E i \in DOMAIN items :
          /\ items[i].product_id = last.args.product_id
          /\ items[i].unit_price # last.args.price
          /\ items[i].unit_price # Catalog[items[i].product_id]

\* The value part of a cookie text: what precedes its last ".".
ValuePart(cookie) ==
    IF Len(cookie) < 2 THEN None ELSE SubSeq(cookie, 1, Len(cookie) - 1)

\* A cookie of the form value.signature whose signature is the HMAC of the
\* value under the server key.
ValidCookie(cookie) ==
    /\ Len(cookie) >= 2
    /\ cookie[Len(cookie)] = CreateSignature(ValuePart(cookie))

\* C33: SessionMiddleware puts the session id of the request's cookie in
\* request.state exactly when the cookie has the form value.signature with
\* a valid HMAC signature; for every other cookie (missing, unsigned, value
\* or signature altered) it puts a freshly generated id there, different from
\* the id in the rejected cookie.
C33_ReusesExactlyValidCookie ==
    [][last'.op = "dispatch"
       => LET cookie == last'.args.cookie
              session_id == last'.ret.session_id
          IN IF ValidCookie(cookie)
             THEN session_id = ValuePart(cookie)
             ELSE /\ session_id \in {<<u>> : u \in Uuids}
                  /\ session_id # ValuePart(cookie)]_vars

\* C34: SessionMiddleware sets the session cookie on a response only when
\* the request path starts with /cart and the request carried no valid
\* cookie: never on another path, and not again on a cart request that came
\* with a valid cookie.  The cookie it sets carries the session id of
\* request.state.
C34_CookieSetOnlyOnCartPaths ==
    [][(last'.op = "dispatch" /\ last'.ret.set_cookie # None)
       => /\ StartsWith(last'.args.path, CartPrefix)
          /\ ~ValidCookie(last'.args.cookie)
          /\ ValuePart(last'.ret.set_cookie) = last'.ret.session_id]_vars

\* A cart request that came with a valid cookie and got none set, its
\* session id being the one of the cookie.
C34_Witness ==
    /\ last.op = "dispatch"
    /\ StartsWith(last.args.path, CartPrefix)
    /\ ValidCookie(last.args.cookie)
    /\ last.ret.session_id = ValuePart(last.args.cookie)
    /\ last.ret.set_cookie = None

\* C35: when add_item requests for a product already in the cart run
\* concurrently, every one of them adds its quantity to the quantity the row
\* has when it commits, so that the final quantity is the initial quantity
\* plus all requested quantities: no increment is lost.
C35_NoLostIncrement ==
    [][(last'.op = "add_item" /\ last'.err = ""
          /\ last'.ret \in DOMAIN items)
       => items'[last'.ret].quantity
            = items[last'.ret].quantity + last'.args.quantity]_vars

\* The cart and the quantity of every item row.
Holdings(its) ==
    [i \in DOMAIN its |->
        [cart_id |-> its[i].cart_id, quantity |-> its[i].quantity]]

\* C36: when concurrent requests of one user with the same session token
\* resolve the current cart, the guest cart is merged into the user cart at
\* most once: the merge_carts of a request either finds the guest cart not
\* yet merged and leaves every item where one merge of the stored carts
\* puts it, with that quantity, or finds it merged already (ABANDONED) and
\* changes no item's cart or quantity.
C36_MergedAtMostOnce ==
    [][(last'.op = "merge_carts" /\ last'.err = "")
       => LET once == IF carts[last'.a].status = ABANDONED THEN items
                      ELSE MergeCarts(DB, last'.a, last'.b, now).db.items
          IN Holdings(items') = Holdings(once)]_vars

\* Both requests have run merge_carts on the same guest cart, which held a
\* product the user cart holds too: the user cart has it once merged.
C36_Witness ==
    /\ last.op = "merge_carts"
    /\ last.err = ""
    /\ \A pr \in Procs :
          /\ calls[pr].pc = "idle"
          /\ calls[pr].user_id # NoId
          /\ calls[pr].session_cart = last.a
    /\ carts[last.a].status = ABANDONED
    /\ \E i, j \in DOMAIN items :
          /\ items[i].cart_id = last.b
          /\ items[j].cart_id = last.a
          /\ items[i].product_id = items[j].product_id
          /\ items[i].quantity = 2 * items[j].quantity

\* C37: POST /cart/resolve-conflicts never abandons or alters its own
\* target: a target cart that is ACTIVE is ACTIVE afterwards, also when
\* target_cart_id names the caller's current cart, and then no item of the
\* cart has its quantity added to itself: every item keeps the quantity it
\* has once the current cart is determined.
C37_TargetKeptIntact ==
    [][last'.op = "post_resolve_conflicts"
       => LET target == last'.args.target_cart_id
              r0 == GetCurrentCart(DB, last'.args.user_id,
                                   last'.args.session_id, now)
          IN (target \in DOMAIN carts /\ carts[target].status = ACTIVE)
             => /\ carts'[target].status = ACTIVE
                /\ target = r0.ret
                   => \A i \in ItemsOf(r0.db.items, target) :
                         /\ i \in DOMAIN items'
                         /\ items'[i].quantity
                              = r0.db.items[i].quantity]_vars

\* C38: when cleanup_abandoned_carts runs after a merge and deletes the
\* abandoned source cart, every item the merge moved to the user cart stays
\* there with its quantity and unit_price: the sweep removes no item, and
\* changes no item, of a cart that is ACTIVE.
C38_SweepKeepsMergedItems ==
    [][last'.op = "cleanup_abandoned_carts"
       => \A i \in DOMAIN items :
             (/\ items[i].cart_id \in DOMAIN carts
              /\ carts[items[i].cart_id].status = ACTIVE)
             => /\ i \in DOMAIN items'
                /\ items'[i] = items[i]]_vars

\* The sweep has deleted the guest cart that a merge abandoned, and the user
\* cart holds an item that was the guest's before the merge (items 3 and 4).
C38_Witness ==
    /\ last.op = "cleanup_abandoned_carts"
    /\ last.ret = 1
    /\ 2 \notin DOMAIN carts
    /\ carts[1].status = ACTIVE
    /\ \E i \in DOMAIN items \cap {3, 4} : items[i].cart_id = 1

\* C39: update_item_quantity, remove_item and clear_cart called with cart id
\* C leave every item of every other cart as it is; when the item id given
\* to update_item_quantity or remove_item belongs to another cart, the call
\* reports the item as absent (None, False) and changes no item.
C39_OnlyItemsOfTheCart ==
    [][last'.op \in {"update_item_quantity", "remove_item", "clear_cart"}
       => LET c == last'.args.cart_id IN
          /\ \A i \in DOMAIN items :
                items[i].cart_id # c
                => i \in DOMAIN items' /\ items'[i] = items[i]
          /\ (/\ last'.op # "clear_cart"
              /\ last'.args.item_id \in DOMAIN items
              /\ items[last'.args.item_id].cart_id # c)
             => /\ last'.ret = (IF last'.op = "remove_item"
                                THEN FALSE ELSE NoId)
                /\ items' = items]_vars

\* remove_item was called with the id of an item of another cart: it
\* returned False and the item is where it was.
C39_Witness ==
    /\ last.op = "remove_item"
    /\ last.ret = FALSE
    /\ last.args.item_id \in DOMAIN items
    /\ last.args.cart_id \in DOMAIN carts
    /\ items[last.args.item_id].cart_id # last.args.cart_id

\* C40: PUT /cart/bulk is all-or-nothing: when the request fails with 400
\* (an entry whose id is no valid item id) or 500, no item quantity of the
\* cart has changed, also not for the entries before the failing one.
C40_BulkAllOrNothing ==
    [][(last'.op = "put_cart_bulk" /\ last'.ret \in {400, 500})
       => \A i \in DOMAIN items :
             /\ i \in DOMAIN items'
             /\ items'[i].quantity = items[i].quantity]_vars

====
